---- MODULE Spec2Model ----
(***************************************************************************)
(* Post lifecycle of oxidecms-core-backend over its two stores: the redb   *)
(* key-value store (posts, metadata, pending_posts, pending_metadata and   *)
(* the three index tables) and the SQLite store (post_ownership,           *)
(* pending_post_ownership).  Every lifecycle helper is one action; a store *)
(* call that can return Err is a fault point of the action.                *)
(*                                                                         *)
(* Strings are sequences of one-character strings, so that split, trim,    *)
(* to_lowercase and the sanitizers are computed character by character.    *)
(***************************************************************************)
EXTENDS Integers, Sequences, FiniteSets, TLC

\* ------------------------------------------------------------------ bounds
\* Number of content ids Uuid::new_v4 hands out in a run.
MaxPosts == 1
\* Largest value of the clock behind Utc::now(), in seconds.
MaxTime == 2
\* Largest number of edit-log entries a post_ownership row collects.
MaxEdits == 1
\* Content ids and largest clock value where the latest posts are read.
LatestPosts == 3
LatestTime == 3

Ids == 1..MaxPosts
\* Unix time is positive.
StartTime == 1
\* users.id of the contributors that act; usernames by id.
UserIds == {1, 2}
Usernames == <<<<"a", "l", "i", "c", "e">>, <<"b", "o", "b">>>>
\* The password each of them logs in with.
Passwords == <<<<"p", "a">>, <<"p", "b">>>>

\* Option<T>: None is the empty sequence, Some(v) is <<v>>.
None == <<>>
Some(v) == <<v>>
\* Option<Vec<String>>::unwrap_or_default
unwrap_or_default(option) == IF option = None THEN <<>> ELSE option[1]
\* QueryReturnedNoRows where a user id is asked for (users.id starts at 1).
NoRows == 0

\* ----------------------------------------------------------------- strings
LowerCase == <<"a", "b", "c", "j", "k", "t", "x">>
UpperCase == <<"A", "B", "C", "J", "K", "T", "X">>

\* char::to_lowercase on the model's alphabet.
LowerChar(c) ==
    IF \E i \in 1..Len(UpperCase) : UpperCase[i] = c
    THEN LowerCase[CHOOSE i \in 1..Len(UpperCase) : UpperCase[i] = c]
    ELSE c

\* str::to_lowercase
ToLower(s) == [i \in 1..Len(s) |-> LowerChar(s[i])]

IsLetter(c) ==
    \E i \in 1..Len(LowerCase) : LowerCase[i] = c \/ UpperCase[i] = c

\* str::trim (the alphabet's only whitespace is the space)
RECURSIVE TrimStart(_)
TrimStart(s) ==
    IF s # <<>> /\ Head(s) = " " THEN TrimStart(Tail(s)) ELSE s

RECURSIVE TrimEnd(_)
TrimEnd(s) ==
    IF s # <<>> /\ s[Len(s)] = " " THEN TrimEnd(SubSeq(s, 1, Len(s) - 1)) ELSE s

Trim(s) == TrimEnd(TrimStart(s))

\* str::split(d): n delimiters give n + 1 pieces, empty pieces included.
RECURSIVE Split(_, _)
Split(s, d) ==
    IF \E i \in 1..Len(s) : s[i] = d
    THEN LET k == CHOOSE i \in 1..Len(s) :
                     s[i] = d /\ \A j \in 1..(i - 1) : s[j] # d
         IN  <<SubSeq(s, 1, k - 1)>> \o Split(SubSeq(s, k + 1, Len(s)), d)
    ELSE <<s>>

\* [String]::join(sep)
RECURSIVE Join(_, _)
Join(list, sep) ==
    IF list = <<>> THEN <<>>
    ELSE IF Len(list) = 1 THEN list[1]
    ELSE list[1] \o sep \o Join(Tail(list), sep)

MapSeq(f(_), s) == [i \in 1..Len(s) |-> f(s[i])]
NonEmpty(s) == s # <<>>
Range(s) == {s[i] : i \in 1..Len(s)}

StartsWith(s, p) == Len(s) >= Len(p) /\ SubSeq(s, 1, Len(p)) = p
Drop(s, n) == SubSeq(s, n + 1, Len(s))

\* ------------------------------------------------------ tags and keywords
\* tags_str.split(',').map(|s| s.trim().to_string()).filter(|s| !s.is_empty())
DisplayList(raw) ==
    SelectSeq(MapSeq(Trim, Split(raw, ",")), NonEmpty)

process_keywords(keywords_str) ==
    SelectSeq(MapSeq(LAMBDA p : ToLower(Trim(p)), Split(keywords_str, ",")),
              NonEmpty)

\* The entries one tag contributes: itself and, when it holds a '/', every
\* trimmed segment and every prefix path built from the trimmed segments.
TagExpansion(tag) ==
    LET parts == MapSeq(Trim, Split(tag, "/"))
    IN  {tag} \cup
        IF Len(parts) > 1
        THEN {parts[i] : i \in 1..Len(parts)} \cup
             {Join(SubSeq(parts, 1, i), <<"/">>) : i \in 1..Len(parts)}
        ELSE {}

generate_all_tags(tags_str) ==
    LET initial_tags ==
            SelectSeq(MapSeq(LAMBDA p : ToLower(Trim(p)), Split(tags_str, ",")),
                      NonEmpty)
    IN  UNION {TagExpansion(initial_tags[i]) : i \in 1..Len(initial_tags)}

\* ------------------------------------------------------------- sanitizers
\* The backquote character (written as a name: the lexer reserves the sign).
Backquote == "bq"
Fence == <<Backquote, Backquote, Backquote>>
EntLt == <<"&", "l", "t", ";">>
EntGt == <<"&", "g", "t", ";">>
EntAmp == <<"&", "a", "m", "p", ";">>

\* Index of the first position >= from at which p occurs in s, 0 if none.
FindFrom(s, p, from) ==
    LET hits == {i \in from..(Len(s) - Len(p) + 1) :
                     SubSeq(s, i, i + Len(p) - 1) = p}
    IN  IF hits = {} THEN 0
        ELSE CHOOSE i \in hits : \A j \in hits : i <= j

\* html_escape::encode_text on one character.
EncodeChar(c) ==
    CASE c = "&" -> EntAmp
      [] c = "<" -> EntLt
      [] c = ">" -> EntGt
      [] OTHER -> <<c>>

\* A step of a sanitizer at the head of the input: what it writes (out) and
\* how many characters of the input it has consumed (n).
Step(out, n) == [out |-> out, n |-> n]

\* Entities are decoded and then '&', '<' and '>' are encoded: an entity
\* comes out as it went in, any other character encoded.
EntityStep(s) ==
    IF StartsWith(s, EntLt) THEN Step(EncodeChar("<"), Len(EntLt))
    ELSE IF StartsWith(s, EntGt) THEN Step(EncodeChar(">"), Len(EntGt))
    ELSE IF StartsWith(s, EntAmp) THEN Step(EncodeChar("&"), Len(EntAmp))
    ELSE Step(EncodeChar(Head(s)), 1)

\* sanitize_markdown_content: fenced code blocks (three backquotes, the
\* shortest text, three backquotes) are kept as they are; everywhere else
\* entities are decoded and then '&', '<' and '>' are encoded.
SanitizeStep(s) ==
    IF StartsWith(s, Fence) /\ FindFrom(s, Fence, 4) # 0
    THEN LET e == FindFrom(s, Fence, 4) + 2 IN Step(SubSeq(s, 1, e), e)
    ELSE EntityStep(s)

RECURSIVE sanitize_markdown_content(_)
sanitize_markdown_content(s) ==
    IF s = <<>> THEN <<>>
    ELSE LET step == SanitizeStep(s)
         IN  step.out \o sanitize_markdown_content(Drop(s, step.n))

\* strip_all_html: ammonia with no tag allowed. A '<' that opens a tag
\* (followed by a letter or '/') is dropped with everything up to the tag's
\* '>' (to the end of the input when the tag is never closed); text is
\* written back with '<', '>' and '&' escaped.
StripStep(s) ==
    IF Head(s) = "<" /\ Len(s) > 1 /\ (IsLetter(s[2]) \/ s[2] = "/")
    THEN LET e == FindFrom(s, <<">">>, 2)
         IN  Step(<<>>, IF e = 0 THEN Len(s) ELSE e)
    ELSE EntityStep(s)

RECURSIVE strip_all_html(_)
strip_all_html(s) ==
    IF s = <<>> THEN <<>>
    ELSE LET step == StripStep(s)
         IN  step.out \o strip_all_html(Drop(s, step.n))

\* ------------------------------------------------------------------ inputs
\* What a caller hands to submit, update-pending, re-submit-for-edit and
\* update_post: title, content, tags_str and search_keywords_str.
FormPlain ==
    [title |-> <<"t">>, content |-> <<"x">>,
     tags |-> <<"a", "/", "b">>, search_keywords |-> <<"k">>]
FormMarkup ==
    [title |-> <<"<", "b", ">", "T">>, content |-> <<"<", "x">>,
     tags |-> <<"A", "/", "c">>, search_keywords |-> <<"K", ",", " ", "j">>]
Forms == {FormPlain, FormMarkup}
\* The form of a call that takes none.
NoForm ==
    [title |-> <<>>, content |-> <<>>, tags |-> <<>>, search_keywords |-> <<>>]

\* The form stored as it is given.
UnsanitizedForm(form) == form

\* The sanitizers of contributor_helpers applied to the four fields of a form.
SanitizedForm(form) ==
    [title |-> strip_all_html(form.title),
     content |-> sanitize_markdown_content(form.content),
     tags |-> strip_all_html(form.tags),
     search_keywords |-> strip_all_html(form.search_keywords)]

\* The string functions are pure: their values on the strings the forms can
\* bring into the stores are tabulated once, as sets of <<argument, value>>.
Sanitized == {<<f, SanitizedForm(f)>> : f \in Forms}

\* Every tags_str or search_keywords_str a call can carry, raw or sanitized.
GivenStrings ==
    UNION {{f.tags, f.search_keywords} : f \in Forms \cup {p[2] : p \in Sanitized}}

DisplayLists == {<<g, DisplayList(g)>> : g \in GivenStrings}

\* [String]::join(", ") of every stored list.
Joined == {<<p[2], Join(p[2], <<",", " ">>)>> : p \in DisplayLists}

ListStrings == GivenStrings \cup {p[2] : p \in Joined}
AllTags == {<<g, generate_all_tags(g)>> : g \in ListStrings}
Keywords == {<<g, Range(process_keywords(g))>> : g \in ListStrings}

Lookup(table, key) == (CHOOSE p \in table : p[1] = key)[2]
Sanitize(form) == Lookup(Sanitized, form)

\* ------------------------------------------------------------- redb tables
\* A table is a function from its keys to its values; an index table, whose
\* values are (), is the set of its keys.
Has(table, key) == key \in DOMAIN table
Put(table, key, value) ==
    [k \in DOMAIN table \cup {key} |-> IF k = key THEN value ELSE table[k]]
Del(table, key) == [k \in DOMAIN table \ {key} |-> table[k]]
EmptyTable == [k \in {} |-> None]

EmptyRedb ==
    [posts |-> EmptyTable, metadata |-> EmptyTable,
     pending_posts |-> EmptyTable, pending_metadata |-> EmptyTable,
     tag_index |-> {}, search_appear_keyword_index |-> {},
     chronological_index |-> {}]

\* ----------------------------------------------------------- SQLite tables
\* bcrypt::hash(password) and bcrypt::verify(attempt, hash).unwrap_or(false):
\* a hash is verified by the password it was made of and by no other.
bcrypt_hash(password) == <<"$", "2", "b", "$">> \o password
bcrypt_verify(attempt, hash) == hash = bcrypt_hash(attempt)

\* The users table once the contributors have been created.
Users ==
    {[id |-> u, username |-> Usernames[u],
      password_hash |-> bcrypt_hash(Passwords[u])] : u \in UserIds}

\* The database after setup: the contributors and no ownership row.
EmptySqlite ==
    [users |-> Users, post_ownership |-> {}, pending_post_ownership |-> {}]

RowsOf(table, post_id) == {r \in table : r.post_id = post_id}

\* INSERT INTO post_ownership (post_id, user_id): raises on the primary key.
InsertOwnership(table, post_id, user_id) ==
    IF RowsOf(table, post_id) # {}
    THEN [ok |-> FALSE, table |-> table]
    ELSE [ok |-> TRUE,
          table |-> table \cup {[post_id |-> post_id, user_id |-> user_id,
                                 edit_log |-> None]}]

\* INSERT OR IGNORE INTO post_ownership (post_id, user_id)
InsertOrIgnoreOwnership(table, post_id, user_id) ==
    IF RowsOf(table, post_id) # {}
    THEN [ok |-> TRUE, table |-> table]
    ELSE [ok |-> TRUE,
          table |-> table \cup {[post_id |-> post_id, user_id |-> user_id,
                                 edit_log |-> None]}]

\* DELETE FROM <table> WHERE post_id = ?1
DeleteRows(table, post_id) == table \ RowsOf(table, post_id)

\* add_pending_post_ownership: a plain INSERT.
add_pending_post_ownership(table, post_id, user_id) ==
    IF RowsOf(table, post_id) # {}
    THEN [ok |-> FALSE, table |-> table]
    ELSE [ok |-> TRUE,
          table |-> table \cup {[post_id |-> post_id, user_id |-> user_id]}]

\* get_pending_post_owner_id: the pending_post_ownership row first, the
\* post_ownership row when there is none, else QueryReturnedNoRows.
get_pending_post_owner_id(sq, post_id) ==
    IF RowsOf(sq.pending_post_ownership, post_id) # {}
    THEN (CHOOSE r \in RowsOf(sq.pending_post_ownership, post_id) : TRUE).user_id
    ELSE IF RowsOf(sq.post_ownership, post_id) # {}
    THEN (CHOOSE r \in RowsOf(sq.post_ownership, post_id) : TRUE).user_id
    ELSE NoRows

\* append_to_edit_log that numbers the new entry with the length of the log.
AppendedLogNumberedFromZero(edit_log, editor_username, at) ==
    LET log == IF edit_log = None THEN <<>> ELSE edit_log
    IN  Append(log, [edit_number |-> Len(log),
                     editor_username |-> editor_username, edited_at |-> at])

\* append_to_edit_log: a NULL or empty log reads as the empty list; the new
\* entry is numbered len + 1; the UPDATE rewrites every row of the post.
AppendedLog(edit_log, editor_username, at) ==
    LET log == IF edit_log = None THEN <<>> ELSE edit_log
    IN  Append(log, [edit_number |-> Len(log) + 1,
                     editor_username |-> editor_username, edited_at |-> at])

append_to_edit_log(table, post_id, editor_username, at) ==
    IF RowsOf(table, post_id) = {}
    THEN [ok |-> FALSE, table |-> table]
    ELSE LET row == CHOOSE r \in RowsOf(table, post_id) : TRUE
             new_log == AppendedLog(row.edit_log, editor_username, at)
         IN  [ok |-> TRUE,
              table |-> {IF r.post_id = post_id
                         THEN [r EXCEPT !.edit_log = new_log] ELSE r
                         : r \in table}]

\* ------------------------------------------------- posts_db_operations
\* The result of a handler: the two stores as it leaves them and what it
\* returns.
Result(kv, sq, res) == [redb |-> kv, sqlite |-> sq, res |-> res]

\* The time component of an index key without the negation.
IndexTimestampNotNegated(meta) == meta.created_at

\* -metadata.created_at.timestamp(): the time component of an index key.
IndexTimestamp(meta) == 0 - meta.created_at

TagKeys(tags, timestamp, id) == {<<t, timestamp, id>> : t \in tags}

\* generate_all_tags(&metadata.tags.join(", "))
MetaIndexTags(meta) == Lookup(AllTags, Lookup(Joined, meta.tags))

\* process_keywords(&keywords.join(", "))
MetaIndexKeywords(meta) ==
    Lookup(Keywords, Lookup(Joined, unwrap_or_default(meta.search_keywords)))

\* The write transaction of create_pending_post.
create_pending_post(kv, id, at, title, content, tags_str, search_keywords_str) ==
    LET meta == [title |-> title, created_at |-> at, last_updated_at |-> None,
                 tags |-> Lookup(DisplayLists, tags_str),
                 search_keywords |->
                     Some(Lookup(DisplayLists, search_keywords_str))]
    IN  [kv EXCEPT !.pending_posts = Put(@, id, content),
                   !.pending_metadata = Put(@, id, meta)]

\* delete_pending_post that removes the content and leaves the metadata.
delete_pending_post_content_only(kv, id) ==
    [kv EXCEPT !.pending_posts = Del(@, id)]

\* The write transaction of delete_pending_post.
delete_pending_post(kv, id) ==
    [kv EXCEPT !.pending_posts = Del(@, id),
               !.pending_metadata = Del(@, id)]

\* update_pending_post that stamps the new metadata with the time of the call.
update_pending_post_restamped(kv, id, at, title, content, tags_str, search_keywords_str) ==
    IF ~Has(kv.pending_metadata, id)
    THEN [res |-> "NotFound", kv |-> kv]
    ELSE LET new_meta == [title |-> title, created_at |-> at,
                          last_updated_at |-> Some(at),
                          tags |-> Lookup(DisplayLists, tags_str),
                          search_keywords |->
                     Some(Lookup(DisplayLists, search_keywords_str))]
         IN  [res |-> "Ok",
              kv |-> [kv EXCEPT !.pending_posts = Put(@, id, content),
                                !.pending_metadata = Put(@, id, new_meta)]]

\* The write transaction of update_pending_post: NotFound (nothing written)
\* without a pending metadata row; created_at is the old row's.
update_pending_post(kv, id, at, title, content, tags_str, search_keywords_str) ==
    IF ~Has(kv.pending_metadata, id)
    THEN [res |-> "NotFound", kv |-> kv]
    ELSE LET old_meta == kv.pending_metadata[id]
             new_meta == [title |-> title, created_at |-> old_meta.created_at,
                          last_updated_at |-> Some(at),
                          tags |-> Lookup(DisplayLists, tags_str),
                          search_keywords |->
                     Some(Lookup(DisplayLists, search_keywords_str))]
         IN  [res |-> "Ok",
              kv |-> [kv EXCEPT !.pending_posts = Put(@, id, content),
                                !.pending_metadata = Put(@, id, new_meta)]]

\* Step 3 of approve_post: the write transaction that publishes.
ApprovePublish(kv, id, content, meta) ==
    LET timestamp == IndexTimestamp(meta)
    IN  [kv EXCEPT
           !.posts = Put(@, id, content),
           !.metadata = Put(@, id, meta),
           !.chronological_index = @ \cup {<<timestamp, id>>},
           !.tag_index = @ \cup TagKeys(MetaIndexTags(meta), timestamp, id),
           !.search_appear_keyword_index =
               @ \cup TagKeys(MetaIndexKeywords(meta), timestamp, id)]

\* move_published_to_pending: one write transaction; the content and the
\* metadata go to the pending tables and leave the published ones. No index
\* table is opened.
move_published_to_pending(kv, id) ==
    IF ~Has(kv.posts, id) \/ ~Has(kv.metadata, id)
    THEN [res |-> "NotFound", kv |-> kv]
    ELSE [res |-> "Ok",
          kv |-> [kv EXCEPT
            !.pending_posts = Put(@, id, kv.posts[id]),
            !.pending_metadata = Put(@, id, kv.metadata[id]),
            !.posts = Del(@, id),
            !.metadata = Del(@, id)]]

\* The write transaction of update_post: the old metadata's tag and keyword
\* entries are removed, then the new ones inserted, under the old created_at.
update_post(kv, id, at, title, content, tags_str, search_keywords_str) ==
    IF ~Has(kv.metadata, id)
    THEN [res |-> "NotFound", kv |-> kv]
    ELSE LET old_meta == kv.metadata[id]
             timestamp == IndexTimestamp(old_meta)
             new_meta == [title |-> title, created_at |-> old_meta.created_at,
                          last_updated_at |-> Some(at),
                          tags |-> Lookup(DisplayLists, tags_str),
                          search_keywords |->
                     Some(Lookup(DisplayLists, search_keywords_str))]
         IN  [res |-> "Ok",
              kv |-> [kv EXCEPT
                !.posts = Put(@, id, content),
                !.metadata = Put(@, id, new_meta),
                !.tag_index =
                    (@ \ TagKeys(MetaIndexTags(old_meta), timestamp, id))
                    \cup TagKeys(Lookup(AllTags, tags_str), timestamp, id),
                !.search_appear_keyword_index =
                    (@ \ TagKeys(MetaIndexKeywords(old_meta), timestamp, id))
                    \cup TagKeys(Lookup(Keywords, search_keywords_str),
                                 timestamp, id)]]

\* The write transaction of delete_post: the index entries of the stored
\* metadata (when there is one), then the content and the metadata.
DeletePostTxn(kv, id) ==
    LET cleaned ==
            IF Has(kv.metadata, id)
            THEN LET meta == kv.metadata[id]
                     timestamp == IndexTimestamp(meta)
                 IN  [kv EXCEPT
                        !.chronological_index = @ \ {<<timestamp, id>>},
                        !.tag_index =
                            @ \ TagKeys(MetaIndexTags(meta), timestamp, id),
                        !.search_appear_keyword_index =
                            @ \ TagKeys(MetaIndexKeywords(meta), timestamp, id)]
            ELSE kv
    IN  [cleaned EXCEPT !.posts = Del(@, id), !.metadata = Del(@, id)]

\* --------------------------------------------------- lifecycle handlers
\* What a handler returns when a store call fails on its own account (the
\* fault injected into the call), as opposed to NotFound, NoRows
\* (QueryReturnedNoRows) and ConstraintViolation, which the data decide.
InjectedErrors == {"PoolError", "RedbError", "SqliteError"}

\* submit_post_for_approval: sanitize, pool.get(), create_pending_post, then
\* add_pending_post_ownership.
submit_post_for_approval(kv, sq, id, at, user_id, form, fault) ==
    LET clean == Sanitize(form)
        kv1 == create_pending_post(kv, id, at, clean.title, clean.content,
                                   clean.tags, clean.search_keywords)
        ins == add_pending_post_ownership(sq.pending_post_ownership, id, user_id)
    IN  IF fault = "pool" THEN Result(kv, sq, "PoolError")
        ELSE IF fault = "create" THEN Result(kv, sq, "RedbError")
        ELSE IF fault = "ownership" THEN Result(kv1, sq, "SqliteError")
        ELSE IF ~ins.ok THEN Result(kv1, sq, "ConstraintViolation")
        ELSE Result(kv1, [sq EXCEPT !.pending_post_ownership = ins.table], "Ok")

\* contributor_helpers::update_pending_post: sanitize, then the write
\* transaction of posts_db_operations::update_pending_post.
contributor_update_pending_post(kv, sq, id, at, form, fault) ==
    LET clean == Sanitize(form)
        up == update_pending_post(kv, id, at, clean.title, clean.content,
                                  clean.tags, clean.search_keywords)
    IN  IF fault = "update" THEN Result(kv, sq, "RedbError")
        ELSE Result(up.kv, sq, up.res)

\* The compensation of approve_post left out.
RollbackNothing(table, post_id) == table

\* The compensation of approve_post:
\* DELETE FROM post_ownership WHERE post_id = ?1
RollbackOwnership(table, post_id) == DeleteRows(table, post_id)

\* approve_post (with the pool.get() of its helper): read the pending rows,
\* resolve the author, INSERT OR IGNORE the ownership row, publish in one
\* write transaction (on failure: the compensation, whose own failure is
\* returned instead), then delete_pending_post and
\* delete_pending_post_ownership.
approve_post(kv, sq, id, fault) ==
    IF fault = "pool" THEN Result(kv, sq, "PoolError")
    ELSE IF fault = "read" THEN Result(kv, sq, "RedbError")
    ELSE IF ~Has(kv.pending_posts, id) \/ ~Has(kv.pending_metadata, id)
    THEN Result(kv, sq, "NotFound")
    ELSE IF fault = "owner" THEN Result(kv, sq, "SqliteError")
    ELSE IF get_pending_post_owner_id(sq, id) = NoRows
    THEN Result(kv, sq, "NoRows")
    ELSE IF fault = "insert" THEN Result(kv, sq, "SqliteError")
    ELSE
      LET content == kv.pending_posts[id]
          metadata == kv.pending_metadata[id]
          author_id == get_pending_post_owner_id(sq, id)
          ins == InsertOrIgnoreOwnership(sq.post_ownership, id, author_id)
          sq1 == [sq EXCEPT !.post_ownership = ins.table]
          kv1 == ApprovePublish(kv, id, content, metadata)
          kv2 == delete_pending_post(kv1, id)
      IN  IF ~ins.ok THEN Result(kv, sq, "ConstraintViolation")
          ELSE IF fault = "publish_rollback" THEN Result(kv, sq1, "SqliteError")
          ELSE IF fault = "publish"
          THEN Result(kv, [sq1 EXCEPT !.post_ownership =
                                          RollbackOwnership(@, id)], "RedbError")
          ELSE IF fault = "delete_pending" THEN Result(kv1, sq1, "RedbError")
          ELSE IF fault = "delete_pending_ownership"
          THEN Result(kv2, sq1, "SqliteError")
          ELSE Result(kv2, [sq1 EXCEPT !.pending_post_ownership =
                                          DeleteRows(@, id)], "Ok")

\* re_submit_for_approval: pool.get(), append_to_edit_log,
\* move_published_to_pending, then the helper's update_pending_post.
re_submit_for_approval(kv, sq, id, at, editor, form, fault) ==
    LET app == append_to_edit_log(sq.post_ownership, id, Usernames[editor], at)
        sq1 == [sq EXCEPT !.post_ownership = app.table]
        mv == move_published_to_pending(kv, id)
    IN  IF fault = "pool" THEN Result(kv, sq, "PoolError")
        ELSE IF fault = "append_log" THEN Result(kv, sq, "SqliteError")
        ELSE IF ~app.ok THEN Result(kv, sq, "NoRows")
        ELSE IF fault = "move" THEN Result(kv, sq1, "RedbError")
        ELSE IF mv.res # "Ok" THEN Result(kv, sq1, mv.res)
        ELSE contributor_update_pending_post(mv.kv, sq1, id, at, form, fault)

\* delete_post that runs the write transaction first and deletes the
\* ownership row after it.
delete_post_ownership_last(kv, sq, id, fault) ==
    LET sq1 == [sq EXCEPT !.post_ownership = DeleteRows(@, id)]
    IN  IF fault = "pool" THEN Result(kv, sq, "PoolError")
        ELSE IF fault = "delete" THEN Result(kv, sq, "RedbError")
        ELSE IF fault = "ownership"
        THEN Result(DeletePostTxn(kv, id), sq, "SqliteError")
        ELSE Result(DeletePostTxn(kv, id), sq1, "Ok")

\* delete_post that forgets the key-value transaction.
delete_post_ownership_only(kv, sq, id, fault) ==
    IF fault = "pool" THEN Result(kv, sq, "PoolError")
    ELSE IF fault = "ownership" THEN Result(kv, sq, "SqliteError")
    ELSE Result(kv, [sq EXCEPT !.post_ownership = DeleteRows(@, id)], "Ok")

\* delete_post (with the pool.get() of its helper): the ownership row first,
\* then the write transaction.
delete_post(kv, sq, id, fault) ==
    LET sq1 == [sq EXCEPT !.post_ownership = DeleteRows(@, id)]
    IN  IF fault = "pool" THEN Result(kv, sq, "PoolError")
        ELSE IF fault = "ownership" THEN Result(kv, sq, "SqliteError")
        ELSE IF fault = "delete" THEN Result(kv, sq1, "RedbError")
        ELSE Result(DeletePostTxn(kv, id), sq1, "Ok")

\* delete_pending_post that deletes the post_ownership row as well.
contributor_delete_pending_post_and_ownership(kv, sq, id, fault) ==
    IF fault = "pool" THEN Result(kv, sq, "PoolError")
    ELSE IF fault = "delete" THEN Result(kv, sq, "RedbError")
    ELSE IF fault = "ownership"
    THEN Result(delete_pending_post(kv, id), sq, "SqliteError")
    ELSE Result(delete_pending_post(kv, id),
                [sq EXCEPT !.pending_post_ownership = DeleteRows(@, id),
                           !.post_ownership = DeleteRows(@, id)], "Ok")

\* contributor_helpers::delete_pending_post: pool.get(), the write
\* transaction of delete_pending_post, then delete_pending_post_ownership.
contributor_delete_pending_post(kv, sq, id, fault) ==
    LET kv1 == delete_pending_post(kv, id)
    IN  IF fault = "pool" THEN Result(kv, sq, "PoolError")
        ELSE IF fault = "delete" THEN Result(kv, sq, "RedbError")
        ELSE IF fault = "ownership" THEN Result(kv1, sq, "SqliteError")
        ELSE Result(kv1, [sq EXCEPT !.pending_post_ownership =
                                        DeleteRows(@, id)], "Ok")

\* ------------------------------------------------------------------- state
\* redb, sqlite: the two stores. allocated: how many content ids
\* Uuid::new_v4 has handed out (ids are 1..allocated, never reused).
\* now: the clock. last: the call that returned last (the operation, its
\* post id, the store call that was made to fail, what it returned, and the
\* form it was given). approved_at: for each id that approve has published,
\* the time of the latest approve that returned Ok, as pairs <<id, time>>.
VARIABLES redb, sqlite, allocated, now, last, approved_at, running

vars == <<redb, sqlite, allocated, now, last, approved_at, running>>

\* The calls in flight, step by step: none.
Idle ==
    [id |-> 0,
     approve |-> [pc |-> "idle", read |-> None, author_id |-> None, res |-> None],
     delete_pending |-> [pc |-> "idle", res |-> None]]

Call(op, id, fault, res, arg) ==
    [op |-> op, id |-> id, fault |-> fault, res |-> res, arg |-> arg]

\* A fault is injected only where the handler reaches the failing call.
Reached(fault, r) == fault = "none" \/ r.res \in InjectedErrors

Init ==
    /\ redb = EmptyRedb
    /\ sqlite = EmptySqlite
    /\ allocated = 0
    /\ now = StartTime
    /\ last = Call("init", 0, "none", "Ok", NoForm)
    /\ approved_at = {}
    /\ running = Idle

\* Time passes between calls (the model's clock stops at the given time).
Advance(until) ==
    /\ now < until
    /\ now' = now + 1
    /\ UNCHANGED <<redb, sqlite, allocated, last, approved_at, running>>

Tick == Advance(MaxTime)

\* A call returns r: the stores are as it left them.
Returns(r) ==
    /\ redb' = r.redb
    /\ sqlite' = r.sqlite

SubmitCall(user_id, form, fault) ==
    /\ \E r \in {submit_post_for_approval(redb, sqlite, allocated + 1, now,
                                          user_id, form, fault)} :
           /\ Reached(fault, r)
           /\ Returns(r)
           /\ allocated' = IF Has(r.redb.pending_posts, allocated + 1)
                           THEN allocated + 1 ELSE allocated
           /\ last' = Call("submit", allocated + 1, fault, r.res, form)
    /\ UNCHANGED <<now, approved_at, running>>

\* Uuid::new_v4 never runs out; the model stops at MaxPosts ids.
Submit(user_id, form, fault) ==
    /\ allocated < MaxPosts
    /\ SubmitCall(user_id, form, fault)

UpdatePending(id, form, fault) ==
    /\ id \in 1..allocated
    /\ \E r \in {contributor_update_pending_post(redb, sqlite, id, now, form,
                                                  fault)} :
           /\ Reached(fault, r)
           /\ Returns(r)
           /\ last' = Call("update_pending", id, fault, r.res, form)
    /\ UNCHANGED <<allocated, now, approved_at, running>>

Approve(id, fault) ==
    /\ id \in 1..allocated
    /\ \E r \in {approve_post(redb, sqlite, id, fault)} :
           /\ Reached(fault, r)
           /\ Returns(r)
           /\ last' = Call("approve", id, fault, r.res, NoForm)
           /\ approved_at' = IF r.res = "Ok"
                              THEN {a \in approved_at : a[1] # id}
                                       \cup {<<id, now>>}
                              ELSE approved_at
    /\ UNCHANGED <<allocated, now, running>>

ReSubmitCall(id, editor, form, fault) ==
    /\ id \in 1..allocated
    /\ \E r \in {re_submit_for_approval(redb, sqlite, id, now, editor, form,
                                         fault)} :
           /\ Reached(fault, r)
           /\ Returns(r)
           /\ last' = Call("re_submit", id, fault, r.res, form)
    /\ UNCHANGED <<allocated, now, approved_at, running>>

\* The edit log grows without limit in the code; the model stops at MaxEdits.
ReSubmit(id, editor, form, fault) ==
    /\ \A row \in RowsOf(sqlite.post_ownership, id) :
           Len(row.edit_log) < MaxEdits
    /\ ReSubmitCall(id, editor, form, fault)

\* posts_db_operations::update_post, called with the form as it is given.
UpdatePost(id, form, fault) ==
    /\ id \in 1..allocated
    /\ \E r \in {IF fault = "update" THEN [res |-> "RedbError", kv |-> redb]
                  ELSE update_post(redb, id, now, form.title, form.content,
                                   form.tags, form.search_keywords)} :
           /\ Reached(fault, r)
           /\ redb' = r.kv
           /\ last' = Call("update_post", id, fault, r.res, form)
    /\ UNCHANGED <<sqlite, allocated, now, approved_at, running>>

DeletePending(id, fault) ==
    /\ id \in 1..allocated
    /\ \E r \in {contributor_delete_pending_post(redb, sqlite, id, fault)} :
           /\ Reached(fault, r)
           /\ Returns(r)
           /\ last' = Call("delete_pending", id, fault, r.res, NoForm)
    /\ UNCHANGED <<allocated, now, approved_at, running>>

DeletePost(id, fault) ==
    /\ id \in 1..allocated
    /\ \E r \in {delete_post(redb, sqlite, id, fault)} :
           /\ Reached(fault, r)
           /\ Returns(r)
           /\ last' = Call("delete_post", id, fault, r.res, NoForm)
    /\ UNCHANGED <<allocated, now, approved_at, running>>

SubmitFaults == {"none", "pool", "create", "ownership"}
UpdateFaults == {"none", "update"}
ApproveFaults ==
    {"none", "pool", "read", "owner", "insert", "publish", "publish_rollback",
     "delete_pending", "delete_pending_ownership"}
ReSubmitFaults == {"none", "pool", "append_log", "move", "update"}
DeleteFaults == {"none", "pool", "ownership", "delete"}

\* Every call, each with every store failure it can meet.
Next ==
    \/ Tick
    \/ \E u \in UserIds, f \in Forms, x \in SubmitFaults : Submit(u, f, x)
    \/ \E i \in Ids, f \in Forms, x \in UpdateFaults : UpdatePending(i, f, x)
    \/ \E i \in Ids, x \in ApproveFaults : Approve(i, x)
    \/ \E i \in Ids, u \in UserIds, f \in Forms, x \in ReSubmitFaults :
           ReSubmit(i, u, f, x)
    \/ \E i \in Ids, f \in Forms, x \in UpdateFaults : UpdatePost(i, f, x)
    \/ \E i \in Ids, x \in DeleteFaults : DeletePending(i, x)
    \/ \E i \in Ids, x \in DeleteFaults : DeletePost(i, x)

Spec == Init /\ [][Next]_vars

\* Only the calls that return Ok: no store failure, no NotFound.
Completed == last'.res = "Ok"

NextOk ==
    \/ Tick
    \/ \E u \in UserIds, f \in Forms : Submit(u, f, "none") /\ Completed
    \/ \E i \in Ids, f \in Forms : UpdatePending(i, f, "none") /\ Completed
    \/ \E i \in Ids : Approve(i, "none") /\ Completed
    \/ \E i \in Ids, u \in UserIds, f \in Forms :
           ReSubmit(i, u, f, "none") /\ Completed
    \/ \E i \in Ids, f \in Forms : UpdatePost(i, f, "none") /\ Completed
    \/ \E i \in Ids : DeletePending(i, "none") /\ Completed
    \/ \E i \in Ids : DeletePost(i, "none") /\ Completed

SpecOk == Init /\ [][NextOk]_vars

\* Every call with no store failure, whatever it returns.
NextUnfailed ==
    \/ Tick
    \/ \E u \in UserIds, f \in Forms : Submit(u, f, "none")
    \/ \E i \in Ids, f \in Forms : UpdatePending(i, f, "none")
    \/ \E i \in Ids : Approve(i, "none")
    \/ \E i \in Ids, u \in UserIds, f \in Forms : ReSubmit(i, u, f, "none")
    \/ \E i \in Ids, f \in Forms : UpdatePost(i, f, "none")
    \/ \E i \in Ids : DeletePending(i, "none")
    \/ \E i \in Ids : DeletePost(i, "none")

SpecUnfailed == Init /\ [][NextUnfailed]_vars

\* ------------------------------------------------------------------ claims
\* The step is a call that returns (the clock stands still while it runs).
CallReturns == now' = now

OwnershipRows(id) == RowsOf(sqlite.post_ownership, id)
PendingOwnershipRows(id) == RowsOf(sqlite.pending_post_ownership, id)

\* C1: after any sequence of calls, each having returned with success or
\* with an error, no content id is in both the published posts table and the
\* pending posts table.
C1_NeverPublishedAndPending ==
    \A id \in Ids : ~(Has(redb.posts, id) /\ Has(redb.pending_posts, id))

\* C2: after any sequence of calls that all returned Ok, an id that has a
\* post_ownership row or a pending_post_ownership row has its content in the
\* published posts table or in the pending posts table.
C2_OwnedIdHasContent ==
    \A id \in Ids :
        (OwnershipRows(id) # {} \/ PendingOwnershipRows(id) # {})
            => (Has(redb.posts, id) \/ Has(redb.pending_posts, id))

ApprovedRightAfterSubmit ==
    /\ last.op = "submit"
    /\ CallReturns
    /\ last'.op = "approve" /\ last'.id = last.id /\ last'.res = "Ok"

\* Where C4 says the id is after the approve: in neither pending table and
\* not in pending_post_ownership, in both published tables.
MovedToPublished(id) ==
    /\ ~Has(redb'.pending_posts, id)
    /\ ~Has(redb'.pending_metadata, id)
    /\ RowsOf(sqlite'.pending_post_ownership, id) = {}
    /\ Has(redb'.posts, id)
    /\ Has(redb'.metadata, id)

\* C4 as stated: after a submit followed by a successful approve of the same
\* id, the id is absent from the pending tables and pending_post_ownership
\* and present in the published tables, its content identical to the
\* submitted content.
C4_PublishedAsSubmitted ==
    [][ApprovedRightAfterSubmit
           => (MovedToPublished(last.id)
               /\ redb'.posts[last.id] = last.arg.content)]_vars

\* C4 as amended: ... its content identical to what
\* sanitize_markdown_content makes of the submitted content (which is what
\* submit stored).
C4_PublishedAsSanitized ==
    [][ApprovedRightAfterSubmit
           => (MovedToPublished(last.id)
               /\ redb'.posts[last.id] =
                      sanitize_markdown_content(last.arg.content)
               /\ redb'.posts[last.id] = redb.pending_posts[last.id])]_vars

\* A first approve has returned Ok and the published content has never been
\* updated since the submit; the submitted content held markup.
C4_Witness ==
    /\ last.op = "approve" /\ last.res = "Ok"
    /\ Has(redb.posts, last.id) /\ Has(redb.metadata, last.id)
    /\ redb.metadata[last.id].last_updated_at = None
    /\ redb.posts[last.id] = sanitize_markdown_content(FormMarkup.content)
    /\ redb.posts[last.id] # FormMarkup.content

\* The entries of an index table that carry the id.
EntriesOf(index, id) == {k \in index : k[Len(k)] = id}

\* { (t, -created_at, id) : t in generate_all_tags(T) } for the tags T of
\* the metadata.
ExpectedTagEntries(meta, id) ==
    TagKeys(generate_all_tags(Join(meta.tags, <<",", " ">>)),
            0 - meta.created_at, id)

\* C5: after a successful approve of a post with tags T, the tag-index
\* entries of its id are exactly (t, -created_at, id) for t in
\* generate_all_tags(T).
C5_TagEntriesAfterApprove ==
    (last.op = "approve" /\ last.res = "Ok")
        => EntriesOf(redb.tag_index, last.id) =
               ExpectedTagEntries(redb.metadata[last.id], last.id)

\* C6: update_post with tags T1 and then update_post with tags T2, both
\* successful on the same published post, leave for its id exactly the
\* tag-index entries of generate_all_tags(T2).
C6_TagEntriesAfterSecondUpdate ==
    [][(/\ last.op = "update_post" /\ last.res = "Ok"
        /\ CallReturns
        /\ last'.op = "update_post" /\ last'.res = "Ok"
        /\ last'.id = last.id)
           => EntriesOf(redb'.tag_index, last.id) =
                  TagKeys(generate_all_tags(last'.arg.tags),
                          0 - redb'.metadata[last.id].created_at, last.id)]_vars

\* C7: a successful re-submit-for-edit of a published post leaves its content
\* and metadata in the pending tables only, and no tag-index, keyword-index
\* or chronological-index entry with its id.
C7_ReSubmitRemovesIndexEntries ==
    (last.op = "re_submit" /\ last.res = "Ok")
        => /\ Has(redb.pending_posts, last.id)
           /\ Has(redb.pending_metadata, last.id)
           /\ ~Has(redb.posts, last.id)
           /\ ~Has(redb.metadata, last.id)
           /\ EntriesOf(redb.tag_index, last.id) = {}
           /\ EntriesOf(redb.search_appear_keyword_index, last.id) = {}
           /\ EntriesOf(redb.chronological_index, last.id) = {}

\* C8: after a successful delete_post of a published post, whatever its
\* history, no content, no metadata, no post_ownership row and no tag-index,
\* keyword-index or chronological-index entry of its id remains.
C8_DeleteLeavesNothing ==
    [][(/\ Has(redb.posts, last'.id) /\ Has(redb.metadata, last'.id)
        /\ CallReturns
        /\ last'.op = "delete_post" /\ last'.res = "Ok")
           => /\ ~Has(redb'.posts, last'.id)
              /\ ~Has(redb'.metadata, last'.id)
              /\ RowsOf(sqlite'.post_ownership, last'.id) = {}
              /\ EntriesOf(redb'.tag_index, last'.id) = {}
              /\ EntriesOf(redb'.search_appear_keyword_index, last'.id) = {}
              /\ EntriesOf(redb'.chronological_index, last'.id) = {}]_vars

\* C9: approve called on an id that has its post_ownership row already does
\* not fail on the ownership insert and leaves no second row; when no store
\* call fails, exactly the one row that was there remains.
C9_ApproveAgainKeepsOneRow ==
    [][(/\ CallReturns
        /\ last'.op = "approve"
        /\ RowsOf(sqlite.post_ownership, last'.id) # {})
           => /\ last'.res # "ConstraintViolation"
              /\ Cardinality(RowsOf(sqlite'.post_ownership, last'.id)) <= 1
              /\ last'.fault = "none"
                     => /\ Cardinality(RowsOf(sqlite'.post_ownership,
                                              last'.id)) = 1
                        /\ RowsOf(sqlite'.post_ownership, last'.id) =
                               RowsOf(sqlite.post_ownership, last'.id)]_vars

\* An approve has returned Ok for a post that was approved before (its
\* post_ownership row carries an edit-log entry): one row, the post published.
C9_Witness ==
    /\ last.op = "approve" /\ last.res = "Ok"
    /\ Has(redb.posts, last.id)
    /\ Cardinality(OwnershipRows(last.id)) = 1
    /\ \A row \in OwnershipRows(last.id) : Len(row.edit_log) = 1

\* Key order of an index range: by timestamp, then by id.
KeyBefore(a, b) == a[2] < b[2] \/ (a[2] = b[2] /\ a[3] < b[3])

RECURSIVE InKeyOrder(_)
InKeyOrder(keys) ==
    IF keys = {} THEN <<>>
    ELSE LET first == CHOOSE k \in keys : \A o \in keys \ {k} : KeyBefore(k, o)
         IN  <<first>> \o InKeyOrder(keys \ {first})

\* read_post_summaries_by_tag: the keys of the lowercased tag in key order,
\* offset skipped and limit taken, then the keys whose id has a metadata row.
read_post_summaries_by_tag(kv, tag, limit, offset) ==
    LET lower_tag == ToLower(tag)
        range == InKeyOrder({k \in kv.tag_index : k[1] = lower_tag})
        last_taken == IF offset + limit < Len(range) THEN offset + limit
                      ELSE Len(range)
        taken == SubSeq(range, offset + 1, last_taken)
        found == SelectSeq(taken, LAMBDA k : Has(kv.metadata, k[3]))
    IN  [i \in 1..Len(found) |->
            [id |-> found[i][3], metadata |-> kv.metadata[found[i][3]]]]

\* The tag lookup returns the post (asked with room for every post).
Returned(tag, id) ==
    \E i \in DOMAIN read_post_summaries_by_tag(redb, tag, MaxPosts, 0) :
        read_post_summaries_by_tag(redb, tag, MaxPosts, 0)[i].id = id

TagAB == <<"a", "/", "b">>
TagAC == <<"a", "/", "c">>

\* C10: for every published post tagged "a/b", the tag lookups for "a", for
\* "a/b" and for "b" return the post and the tag lookup for "a/c" does not.
C10_HierarchicalLookup ==
    \A id \in Ids :
        (/\ Has(redb.posts, id) /\ Has(redb.metadata, id)
         /\ redb.metadata[id].tags = <<TagAB>>)
            => /\ Returned(<<"a">>, id)
               /\ Returned(TagAB, id)
               /\ Returned(<<"b">>, id)
               /\ ~Returned(TagAC, id)

\* ----------------------------------------------------------- latest posts
\* Key order of the chronological index: by timestamp, then by id.
ChronoBefore(a, b) == a[1] < b[1] \/ (a[1] = b[1] /\ a[2] < b[2])

RECURSIVE InChronoOrder(_)
InChronoOrder(keys) ==
    IF keys = {} THEN <<>>
    ELSE LET first == CHOOSE k \in keys :
                          \A o \in keys \ {k} : ChronoBefore(k, o)
         IN  <<first>> \o InChronoOrder(keys \ {first})

\* read_latest_post_summaries that falls back on the pending metadata of a key
\* whose id has no published metadata row.
read_latest_post_summaries_any_metadata(kv, limit, offset) ==
    LET all == InChronoOrder(kv.chronological_index)
        last_taken == IF offset + limit < Len(all) THEN offset + limit
                      ELSE Len(all)
        taken == SubSeq(all, offset + 1, last_taken)
        found == SelectSeq(taken, LAMBDA k : Has(kv.metadata, k[2])
                                             \/ Has(kv.pending_metadata, k[2]))
    IN  [i \in 1..Len(found) |->
            [id |-> found[i][2],
             metadata |-> IF Has(kv.metadata, found[i][2])
                          THEN kv.metadata[found[i][2]]
                          ELSE kv.pending_metadata[found[i][2]]]]

\* read_latest_post_summaries: the chronological index in key order, offset
\* skipped and limit taken, then the keys whose id has a metadata row.
read_latest_post_summaries(kv, limit, offset) ==
    LET all == InChronoOrder(kv.chronological_index)
        last_taken == IF offset + limit < Len(all) THEN offset + limit
                      ELSE Len(all)
        taken == SubSeq(all, offset + 1, last_taken)
        found == SelectSeq(taken, LAMBDA k : Has(kv.metadata, k[2]))
    IN  [i \in 1..Len(found) |->
            [id |-> found[i][2], metadata |-> kv.metadata[found[i][2]]]]

\* Submit, approve and re-submit of up to LatestPosts posts, every call
\* returning Ok, with the clock running to LatestTime.
LatestNext ==
    \/ Advance(LatestTime)
    \/ allocated < LatestPosts /\ SubmitCall(1, FormPlain, "none") /\ Completed
    \/ \E i \in 1..LatestPosts : Approve(i, "none") /\ Completed
    \/ \E i \in 1..LatestPosts :
           ReSubmit(i, 1, FormPlain, "none") /\ Completed

SpecLatest == Init /\ [][LatestNext]_vars

Published(id) == Has(redb.posts, id) /\ Has(redb.metadata, id)

\* The ids read_latest(limit = 2, offset = 0) returns, in its order.
LatestTwo ==
    LET summaries == read_latest_post_summaries(redb, 2, 0)
    IN  [i \in 1..Len(summaries) |-> summaries[i].id]

\* C11 as stated: given three posts approved at times t1 < t2 < t3,
\* read_latest(2, 0) returns the post approved at t3, then the one approved
\* at t2.
C11_LatestByApproval ==
    \A a1 \in approved_at, a2 \in approved_at, a3 \in approved_at :
        (/\ Published(a1[1]) /\ Published(a2[1]) /\ Published(a3[1])
         /\ a1[2] < a2[2] /\ a2[2] < a3[2])
            => LatestTwo = <<a3[1], a2[1]>>

\* C11 as amended: given three posts, the only content ids in the store,
\* created at seconds t1 < t2 < t3 and all published (whenever and however
\* often they were approved), read_latest(2, 0) returns the post created at
\* t3, then the one created at t2.
C11_LatestByCreation ==
    \A i \in 1..allocated, j \in 1..allocated, k \in 1..allocated :
        (/\ 1..allocated = {i, j, k}
         /\ Published(i) /\ Published(j) /\ Published(k)
         /\ redb.metadata[i].created_at < redb.metadata[j].created_at
         /\ redb.metadata[j].created_at < redb.metadata[k].created_at)
            => LatestTwo = <<k, j>>

\* Three posts created at three different seconds are all published, and an
\* older one was approved after a newer one.
C11_Witness ==
    /\ allocated = 3
    /\ \A i \in 1..3 : Published(i) /\ redb.metadata[i].created_at = i
    /\ \E a1 \in approved_at, a2 \in approved_at :
           a1[1] < a2[1] /\ a1[2] > a2[2]

\* ------------------------------------------------------------ permissions
\* Contributor: the users row of the caller, as far as the checks read it.
Contributors ==
    [id : UserIds, role : {"admin", "contributor"},
     can_edit_and_delete_own_posts : BOOLEAN, can_edit_any_post : BOOLEAN,
     can_delete_any_post : BOOLEAN, can_approve_posts : BOOLEAN]

PostAction == {"Edit", "Delete"}

\* post_owner_id.map_or(false, |owner_id| owner_id == user.id)
IsOwner(table, user, post_id) ==
    \E row \in RowsOf(table, post_id) : row.user_id = user.id

\* check_permission where ownership alone lets the owner act.
check_permission_owner_suffices(sq, user, post_id, action) ==
    \/ user.role = "admin"
    \/ IsOwner(sq.post_ownership, user, post_id)
    \/ IF action = "Edit" THEN user.can_edit_any_post
       ELSE user.can_delete_any_post

check_permission(sq, user, post_id, action) ==
    IF user.role = "admin" THEN TRUE
    ELSE LET is_owner == IsOwner(sq.post_ownership, user, post_id)
         IN  IF action = "Edit"
             THEN (is_owner /\ user.can_edit_and_delete_own_posts)
                      \/ user.can_edit_any_post
             ELSE (is_owner /\ user.can_edit_and_delete_own_posts)
                      \/ user.can_delete_any_post

\* check_pending_permission where an admin may edit any pending post.
check_pending_permission_admin_edits(sq, user, post_id, action) ==
    \/ IsOwner(sq.pending_post_ownership, user, post_id)
    \/ user.role = "admin"
    \/ action = "Delete" /\ user.can_approve_posts

check_pending_permission(sq, user, post_id, action) ==
    LET is_owner == IsOwner(sq.pending_post_ownership, user, post_id)
    IN  IF action = "Edit" THEN is_owner
        ELSE is_owner \/ user.role = "admin" \/ user.can_approve_posts

\* The user_id of the ownership row of the post is the user's id.
OwnerIs(rows, user) == \E row \in rows : row.user_id = user.id

\* C12: check_permission for published posts is true for every admin; for
\* a non-admin it is true iff (the user is the post_ownership owner and has
\* can_edit_and_delete_own_posts) or has the blanket flag of the action; an
\* owner without that flag and without blanket flags cannot edit.
C12_CheckPermission ==
    \A user \in Contributors, id \in Ids :
        /\ user.role = "admin"
               => \A action \in PostAction :
                      check_permission(sqlite, user, id, action)
        /\ user.role # "admin"
               => /\ check_permission(sqlite, user, id, "Edit")
                      <=> \/ OwnerIs(OwnershipRows(id), user)
                              /\ user.can_edit_and_delete_own_posts
                          \/ user.can_edit_any_post
                  /\ check_permission(sqlite, user, id, "Delete")
                      <=> \/ OwnerIs(OwnershipRows(id), user)
                              /\ user.can_edit_and_delete_own_posts
                          \/ user.can_delete_any_post
        /\ (/\ user.role # "admin"
            /\ OwnerIs(OwnershipRows(id), user)
            /\ ~user.can_edit_and_delete_own_posts
            /\ ~user.can_edit_any_post)
               => ~check_permission(sqlite, user, id, "Edit")

\* A published post has its owner, and the owner as a contributor without
\* any flag is refused the edit.
C12_Witness ==
    \E user \in Contributors, id \in Ids :
        /\ Published(id)
        /\ OwnerIs(OwnershipRows(id), user)
        /\ user.role = "contributor"
        /\ ~user.can_edit_and_delete_own_posts
        /\ ~user.can_edit_any_post /\ ~user.can_delete_any_post
        /\ ~check_permission(sqlite, user, id, "Edit")

\* C13: check_pending_permission for Edit is true iff the user is the owner
\* recorded for the pending post (admins and approvers who are not the owner
\* are refused); for Delete it is true iff the user is that owner or is an
\* admin or has can_approve_posts.
C13_CheckPendingPermission ==
    \A user \in Contributors, id \in Ids :
        /\ check_pending_permission(sqlite, user, id, "Edit")
               <=> OwnerIs(PendingOwnershipRows(id), user)
        /\ check_pending_permission(sqlite, user, id, "Delete")
               <=> \/ OwnerIs(PendingOwnershipRows(id), user)
                   \/ user.role = "admin"
                   \/ user.can_approve_posts

\* A pending post has its owner, and an admin with can_approve_posts who is
\* not the owner is refused the edit and allowed the delete.
C13_Witness ==
    \E user \in Contributors, id \in Ids :
        /\ Has(redb.pending_posts, id)
        /\ PendingOwnershipRows(id) # {}
        /\ ~OwnerIs(PendingOwnershipRows(id), user)
        /\ user.role = "admin" /\ user.can_approve_posts
        /\ ~check_pending_permission(sqlite, user, id, "Edit")
        /\ check_pending_permission(sqlite, user, id, "Delete")

\* A delete-pending of the id of the re-submit that returned Ok just before
\* it has returned Ok.
DeletedPendingRightAfterReSubmit ==
    /\ last.op = "re_submit" /\ last.res = "Ok"
    /\ CallReturns
    /\ last'.op = "delete_pending" /\ last'.id = last.id /\ last'.res = "Ok"

\* C14: re-submit-for-edit of a published post followed by delete-pending
\* of the same id leaves the post_ownership row (owner and edit log as the
\* re-submit left them) in place; the pending content and the pending
\* metadata of the id disappear, every published table and index table
\* stays as it was, and no ownership row of another id is touched.
C14_ReSubmitThenDeletePending ==
    [][DeletedPendingRightAfterReSubmit
           => /\ RowsOf(sqlite.post_ownership, last.id) # {}
              /\ sqlite'.post_ownership = sqlite.post_ownership
              /\ sqlite'.pending_post_ownership
                     \in {sqlite.pending_post_ownership,
                          sqlite.pending_post_ownership
                              \ RowsOf(sqlite.pending_post_ownership, last.id)}
              /\ Has(redb.pending_posts, last.id)
              /\ ~Has(redb'.pending_posts, last.id)
              /\ ~Has(redb'.pending_metadata, last.id)
              /\ \A i \in Ids \ {last.id} :
                     /\ Has(redb'.pending_posts, i) <=> Has(redb.pending_posts, i)
                     /\ Has(redb.pending_posts, i)
                            => redb'.pending_posts[i] = redb.pending_posts[i]
              /\ redb'.posts = redb.posts
              /\ redb'.metadata = redb.metadata
              /\ redb'.tag_index = redb.tag_index
              /\ redb'.search_appear_keyword_index =
                     redb.search_appear_keyword_index
              /\ redb'.chronological_index = redb.chronological_index]_vars

\* A delete-pending has returned Ok for a post that was re-submitted: its
\* post_ownership row with the edit-log entry of the re-submit is there, its
\* content is in neither the pending nor the published table.
C14_Witness ==
    /\ last.op = "delete_pending" /\ last.res = "Ok"
    /\ \E row \in OwnershipRows(last.id) : Len(row.edit_log) = 1
    /\ ~Has(redb.pending_posts, last.id)
    /\ ~Has(redb.pending_metadata, last.id)
    /\ ~Has(redb.posts, last.id)

\* ---------------------------------------------------------- table browser
DbSelection == {"PostsDb", "ContributorDb"}

TableInfo(db, name, cleanable, dependencies) ==
    [db |-> db, name |-> name, cleanable |-> cleanable,
     dependencies |-> dependencies]

\* get_db_structure_definition().databases, each table with its database.
DbTables ==
    {TableInfo("PostsDb", "posts", FALSE, <<"metadata">>),
     TableInfo("PostsDb", "metadata", FALSE, <<"posts">>),
     TableInfo("PostsDb", "pending_posts", TRUE, <<"pending_metadata">>),
     TableInfo("PostsDb", "pending_metadata", TRUE, <<"pending_posts">>),
     TableInfo("ContributorDb", "users", FALSE, <<>>),
     TableInfo("ContributorDb", "settings", FALSE, <<>>),
     TableInfo("ContributorDb", "post_ownership", TRUE, <<>>),
     TableInfo("ContributorDb", "pending_post_ownership", TRUE, <<>>),
     TableInfo("ContributorDb", "media_attachments", TRUE, <<>>)}

\* get_db_structure_definition().editable_cells, as (table, column) pairs.
EditableCells ==
    {<<"settings", "value">>, <<"users", "username">>,
     <<"posts", "value">>, <<"pending_posts", "value">>,
     <<"metadata", "title">>, <<"metadata", "summary">>,
     <<"metadata", "tags">>, <<"metadata", "cover_image">>,
     <<"pending_metadata", "title">>, <<"pending_metadata", "summary">>,
     <<"pending_metadata", "tags">>, <<"pending_metadata", "cover_image">>}

\* A row id as the browser is given it: the string of a content uuid or
\* the string of an integer users.id.
UuidString(n) == <<"uuid", n>>
IntString(n) == <<"int", n>>
\* Uuid::parse_str(row_id).is_ok()
IsUuid(row_id) == row_id[1] = "uuid"

\* str::contains
Contains(s, pattern) ==
    \E i \in 1..(Len(s) + 1) : StartsWith(Drop(s, i - 1), pattern)

\* The precision of format!("{:.100}...", value).
PreviewLength == 100

\* format!("Title: {}", m.title)
TitlePreview(meta) == <<"T", "i", "t", "l", "e", ":", " ">> \o meta.title

\* format!("{:.100}...", value)
ValuePreview(value) ==
    SubSeq(value, 1, IF Len(value) < PreviewLength THEN Len(value)
                     ELSE PreviewLength) \o <<".", ".", ".">>

\* The preview of a dependent row: always the title of the post.
PreviewOfTitle(kv, dep_table_name, uuid) ==
    IF dep_table_name \in {"metadata", "pending_metadata"}
    THEN TitlePreview(kv[dep_table_name][uuid])
    ELSE IF dep_table_name = "posts" THEN TitlePreview(kv.metadata[uuid])
    ELSE TitlePreview(kv.pending_metadata[uuid])

\* The preview of a dependent row, by dep_table_name.contains("metadata")
\* (of the schema's dependency tables, metadata and pending_metadata).
Preview(kv, dep_table_name, uuid) ==
    IF dep_table_name \in {"metadata", "pending_metadata"}
    THEN TitlePreview(kv[dep_table_name][uuid])
    ELSE ValuePreview(kv[dep_table_name][uuid])

\* get_row_dependencies: the declared dependency tables of the table that
\* hold a row with the same id, each with a preview.
get_row_dependencies(kv, db_selection, table_name, row_id) ==
    LET infos == {t \in DbTables : t.db = db_selection /\ t.name = table_name}
    IN  IF infos = {} THEN [res |-> "NotFound", found |-> <<>>]
        ELSE LET dependencies == (CHOOSE t \in infos : TRUE).dependencies
             IN  IF dependencies = <<>> \/ db_selection = "ContributorDb"
                 THEN [res |-> "Ok", found |-> <<>>]
                 ELSE IF ~IsUuid(row_id)
                 THEN [res |-> "UuidError", found |-> <<>>]
                 ELSE LET held == SelectSeq(dependencies,
                                   LAMBDA d : Has(kv[d], row_id[2]))
                      IN  [res |-> "Ok",
                           found |->
                              [i \in 1..Len(held) |->
                                 [table_name |-> held[i],
                                  row_id |-> row_id,
                                  preview |->
                                     Preview(kv, held[i], row_id[2])]]]

\* find_dependents for table metadata and the id of the last call.
MetadataDependents ==
    get_row_dependencies(redb, "PostsDb", "metadata", UuidString(last.id))

\* It returns one dependency, in table posts, with the same row id.
OnePostsDependency ==
    /\ MetadataDependents.res = "Ok"
    /\ Len(MetadataDependents.found) = 1
    /\ MetadataDependents.found[1].table_name = "posts"
    /\ MetadataDependents.found[1].row_id = UuidString(last.id)

Ellipsis == <<".", ".", ".">>

\* C15 as stated: after a post is submitted and approved, find_dependents
\* for table metadata and its id returns one dependency, in table posts with
\* the same row id, whose preview contains the post's title.
C15_PreviewHoldsTitle ==
    (last.op = "approve" /\ last.res = "Ok")
        => /\ OnePostsDependency
           /\ Contains(MetadataDependents.found[1].preview,
                       redb.metadata[last.id].title)

\* C15 as amended: ... one dependency, in table posts with the same row id,
\* whose preview is the first 100 characters of the post's content followed
\* by "..." (the title is previewed for rows of the metadata tables only).
C15_PreviewHoldsContent ==
    (last.op = "approve" /\ last.res = "Ok")
        => /\ OnePostsDependency
           /\ Len(redb.posts[last.id]) <= 100
                  => MetadataDependents.found[1].preview =
                         redb.posts[last.id] \o Ellipsis
           /\ Len(redb.posts[last.id]) > 100
                  => MetadataDependents.found[1].preview =
                         SubSeq(redb.posts[last.id], 1, 100) \o Ellipsis

\* An approve has returned Ok and the preview of the posts dependency does
\* not contain the title.
C15_Witness ==
    /\ last.op = "approve" /\ last.res = "Ok"
    /\ OnePostsDependency
    /\ ~Contains(MetadataDependents.found[1].preview,
                  redb.metadata[last.id].title)

\* -------------------------------------------- table browser: update a cell
\* The tables with_redb_table opens.
RedbTables == {"posts", "metadata", "pending_posts", "pending_metadata"}

\* The columns of the SQLite tables whose rows the model holds.
SqliteColumns ==
    [users |-> {"id", "username", "password_hash"},
     post_ownership |-> {"post_id", "user_id", "edit_log"},
     pending_post_ownership |-> {"post_id", "user_id"}]

\* The primary key of a row as the string a statement compares it with:
\* users by id, any other table by post_id.
KeyString(table_name, row) ==
    IF table_name = "users" THEN IntString(row.id) ELSE UuidString(row.post_id)

\* UPDATE <table> SET <column> = ?1 WHERE <pk> = ?2: an error for a table or
\* a column the schema does not have (settings and media_attachments have
\* no post_id) and for a username another row has (UNIQUE).
update_sqlite_cell(sq, table_name, row_id, column_name, value) ==
    IF table_name \notin DOMAIN SqliteColumns
    THEN [res |-> "SqliteError", sq |-> sq]
    ELSE IF column_name \notin SqliteColumns[table_name]
    THEN [res |-> "SqliteError", sq |-> sq]
    ELSE LET hit == {r \in sq[table_name] : KeyString(table_name, r) = row_id}
             others == sq[table_name] \ hit
         IN  IF /\ column_name = "username"
                /\ hit # {}
                /\ \E r \in others : r.username = value
             THEN [res |-> "SqliteError", sq |-> sq]
             ELSE [res |-> "Ok",
                   sq |-> [sq EXCEPT ![table_name] =
                              others \cup
                              {[r EXCEPT ![column_name] = value] : r \in hit}]]

\* new_value.split(',').map(|s| s.trim().to_string()).collect()
CellTags(new_value) ==
    LET pieces == Split(new_value, ",")
    IN  [i \in 1..Len(pieces) |-> Trim(pieces[i])]

\* update_redb_cell that also takes the keys of the row out of the tag index
\* when it sets the tags.
update_redb_cell_and_index(kv, table_name, row_id, column_name, new_value, fault) ==
    IF ~IsUuid(row_id) THEN [res |-> "UuidError", kv |-> kv]
    ELSE IF fault = "begin_write" THEN [res |-> "RedbError", kv |-> kv]
    ELSE IF table_name \notin RedbTables THEN [res |-> "NotFound", kv |-> kv]
    ELSE IF ~Has(kv[table_name], row_id[2])
    THEN [res |-> "NotFound", kv |-> kv]
    ELSE IF table_name \in {"metadata", "pending_metadata"}
    THEN LET meta == kv[table_name][row_id[2]]
         IN  IF column_name = "title"
             THEN [res |-> "Ok",
                   kv |-> [kv EXCEPT ![table_name] =
                             Put(@, row_id[2],
                                 [meta EXCEPT !.title = new_value])]]
             ELSE IF column_name = "tags"
             THEN [res |-> "Ok",
                   kv |-> [kv EXCEPT ![table_name] =
                             Put(@, row_id[2],
                                 [meta EXCEPT !.tags = CellTags(new_value)]),
                             !.tag_index = {k \in @ : k[3] # row_id[2]}]]
             ELSE IF column_name \in {"summary", "cover_image"}
             THEN [res |-> "Ok", kv |-> kv]
             ELSE [res |-> "Unsupported", kv |-> kv]
    ELSE IF column_name = "value"
    THEN [res |-> "Ok",
          kv |-> [kv EXCEPT ![table_name] = Put(@, row_id[2], new_value)]]
    ELSE [res |-> "Unsupported", kv |-> kv]

\* update_redb_cell: the row id is parsed, then one write transaction reads
\* the row, sets the column and commits. summary and cover_image are not
\* fields of the model's metadata: setting them changes nothing it holds.
update_redb_cell(kv, table_name, row_id, column_name, new_value, fault) ==
    IF ~IsUuid(row_id) THEN [res |-> "UuidError", kv |-> kv]
    ELSE IF fault = "begin_write" THEN [res |-> "RedbError", kv |-> kv]
    ELSE IF table_name \notin RedbTables THEN [res |-> "NotFound", kv |-> kv]
    ELSE IF ~Has(kv[table_name], row_id[2])
    THEN [res |-> "NotFound", kv |-> kv]
    ELSE IF table_name \in {"metadata", "pending_metadata"}
    THEN LET meta == kv[table_name][row_id[2]]
         IN  IF column_name = "title"
             THEN [res |-> "Ok",
                   kv |-> [kv EXCEPT ![table_name] =
                             Put(@, row_id[2],
                                 [meta EXCEPT !.title = new_value])]]
             ELSE IF column_name = "tags"
             THEN [res |-> "Ok",
                   kv |-> [kv EXCEPT ![table_name] =
                             Put(@, row_id[2],
                                 [meta EXCEPT !.tags = CellTags(new_value)])]]
             ELSE IF column_name \in {"summary", "cover_image"}
             THEN [res |-> "Ok", kv |-> kv]
             ELSE [res |-> "Unsupported", kv |-> kv]
    ELSE IF column_name = "value"
    THEN [res |-> "Ok",
          kv |-> [kv EXCEPT ![table_name] = Put(@, row_id[2], new_value)]]
    ELSE [res |-> "Unsupported", kv |-> kv]

\* The store call of update_table_cell, by db_selection.
UpdateStoreCell(kv, sq, db_selection, table_name, row_id, column_name, value, fault) ==
    IF db_selection = "PostsDb"
    THEN LET r == update_redb_cell(kv, table_name, row_id, column_name, value,
                                   fault)
         IN  Result(r.kv, sq, r.res)
    ELSE IF fault = "pool" THEN Result(kv, sq, "PoolError")
    ELSE LET r == update_sqlite_cell(sq, table_name, row_id, column_name,
                                     value)
         IN  Result(kv, r.sq, r.res)

\* update_table_cell with no look at the allow-list.
update_table_cell_unchecked(kv, sq, db_selection, table_name, row_id, column_name, value, fault) ==
    UpdateStoreCell(kv, sq, db_selection, table_name, row_id, column_name,
                    value, fault)

\* update_table_cell: Forbidden unless (table, column) is in editable_cells,
\* then the store call.
update_table_cell(kv, sq, db_selection, table_name, row_id, column_name, value, fault) ==
    IF <<table_name, column_name>> \notin EditableCells
    THEN Result(kv, sq, "Forbidden")
    ELSE UpdateStoreCell(kv, sq, db_selection, table_name, row_id,
                         column_name, value, fault)

\* What the browser is asked about: every table of the structure definition
\* and one it does not list; the ids of posts and of users; columns on and
\* off the allow-list; values whose tag lists the forms also produce.
BrowserTables == {t.name : t \in DbTables} \cup {"tag_index"}
RowIds == {UuidString(i) : i \in Ids} \cup {IntString(u) : u \in UserIds}
Columns == {"value", "title", "tags", "created_at", "username", "edit_log"}
CellValues == {FormPlain.search_keywords, FormPlain.tags}
CellFaults == {"none", "begin_write", "pool"}

UpdateCell(db_selection, table_name, row_id, column_name, value, fault) ==
    /\ \E r \in {update_table_cell(redb, sqlite, db_selection, table_name,
                                   row_id, column_name, value, fault)} :
           /\ Reached(fault, r)
           /\ Returns(r)
           /\ last' = Call("update_cell", 0, fault, r.res, NoForm)
    /\ UNCHANGED <<allocated, now, approved_at, running>>

\* update_table_cell on the present stores.
UpdatedCell(db_selection, table_name, row_id, column_name, value, fault) ==
    update_table_cell(redb, sqlite, db_selection, table_name, row_id,
                      column_name, value, fault)

\* C16: whatever the stores hold, update_cell of a (table, column) that is
\* not in the allow-list returns Forbidden and changes neither store, for
\* every database, row id and value it is given.
C16_UpdateCellAllowList ==
    \A db_selection \in DbSelection, table_name \in BrowserTables,
       row_id \in RowIds, column_name \in Columns, value \in CellValues,
       fault \in CellFaults :
        <<table_name, column_name>> \notin EditableCells
            => UpdatedCell(db_selection, table_name, row_id, column_name,
                           value, fault) = Result(redb, sqlite, "Forbidden")

\* An update_cell has returned Forbidden while the post_ownership table
\* holds the row of an approved post, whose columns are off the allow-list.
C16_Witness ==
    /\ last.op = "update_cell" /\ last.res = "Forbidden"
    /\ sqlite.post_ownership # {}
    /\ redb.metadata # EmptyTable

\* -------------------------------------------- table browser: clean a table
\* clean_redb_table: one write transaction removes every key of the table.
clean_redb_table(kv, table_name) ==
    IF table_name \notin RedbTables THEN [res |-> "NotFound", kv |-> kv]
    ELSE [res |-> "Ok", kv |-> [kv EXCEPT ![table_name] = EmptyTable]]

\* clean_redb_table for each name in turn, until one fails.
RECURSIVE CleanEach(_, _, _)
CleanEach(kv, names, fault) ==
    IF names = <<>> THEN [res |-> "Ok", kv |-> kv]
    ELSE IF fault = "clean_dependents" THEN [res |-> "RedbError", kv |-> kv]
    ELSE LET r == clean_redb_table(kv, Head(names))
         IN  IF r.res # "Ok" THEN r ELSE CleanEach(r.kv, Tail(names), fault)

\* ON DELETE CASCADE, where the build of SQLite enforces foreign keys (no
\* PRAGMA foreign_keys is issued): the ownership rows of the users rows a
\* statement took from before go with them.
Cascaded(before, after, foreign_keys) ==
    IF ~foreign_keys THEN after
    ELSE LET gone == {u.id : u \in before.users \ after.users}
         IN  [after EXCEPT
                !.post_ownership = {r \in @ : r.user_id \notin gone},
                !.pending_post_ownership = {r \in @ : r.user_id \notin gone}]

\* clean_sqlite_table: DELETE FROM <table>; the rows of settings and
\* media_attachments are not held by the model.
clean_sqlite_table(sq, table_name, foreign_keys) ==
    IF table_name \in DOMAIN SqliteColumns
    THEN [res |-> "Ok",
          sq |-> Cascaded(sq, [sq EXCEPT ![table_name] = {}], foreign_keys)]
    ELSE IF table_name \in {"settings", "media_attachments"}
    THEN [res |-> "Ok", sq |-> sq]
    ELSE [res |-> "SqliteError", sq |-> sq]

\* The second web::block of clean_table_with_auth: the table, then (asked
\* for) each of its declared dependencies, every one in a transaction of
\* its own. No table of the contributor database declares a dependency.
CleanStores(kv, sq, db_selection, info, clean_dependents, foreign_keys, fault) ==
    IF db_selection = "PostsDb"
    THEN IF fault = "clean" THEN Result(kv, sq, "RedbError")
         ELSE LET first == clean_redb_table(kv, info.name)
                  r == IF first.res = "Ok" /\ clean_dependents
                       THEN CleanEach(first.kv, info.dependencies, fault)
                       ELSE first
              IN  Result(r.kv, sq, r.res)
    ELSE IF fault = "clean" THEN Result(kv, sq, "PoolError")
    ELSE LET r == clean_sqlite_table(sq, info.name, foreign_keys)
         IN  Result(kv, r.sq, r.res)

\* clean_table_with_auth with no look at the password.
clean_table_with_auth_unverified(kv, sq, current_admin_user, admin_password_attempt, db_selection, table_name, clean_dependents, foreign_keys, fault) ==
    LET infos == {t \in DbTables : t.name = table_name}
    IN  IF fault = "pool" THEN Result(kv, sq, "PoolError")
        ELSE IF infos = {} THEN Result(kv, sq, "Forbidden")
        ELSE IF ~(CHOOSE t \in infos : TRUE).cleanable
        THEN Result(kv, sq, "Forbidden")
        ELSE CleanStores(kv, sq, db_selection, CHOOSE t \in infos : TRUE,
                         clean_dependents, foreign_keys, fault)

\* clean_table_with_auth: the admin's row by username, the attempt against
\* its hash, the table's cleanable flag (looked up by name in every
\* database), then the cleaning.
clean_table_with_auth(kv, sq, current_admin_user, admin_password_attempt, db_selection, table_name, clean_dependents, foreign_keys, fault) ==
    LET user_details == {u \in sq.users : u.username = current_admin_user}
        infos == {t \in DbTables : t.name = table_name}
    IN  IF fault = "pool" THEN Result(kv, sq, "PoolError")
        ELSE IF user_details = {} THEN Result(kv, sq, "InvalidCredentials")
        ELSE IF ~bcrypt_verify(admin_password_attempt,
                               (CHOOSE u \in user_details : TRUE).password_hash)
        THEN Result(kv, sq, "InvalidCredentials")
        ELSE IF infos = {} THEN Result(kv, sq, "Forbidden")
        ELSE IF ~(CHOOSE t \in infos : TRUE).cleanable
        THEN Result(kv, sq, "Forbidden")
        ELSE CleanStores(kv, sq, db_selection, CHOOSE t \in infos : TRUE,
                         clean_dependents, foreign_keys, fault)

CleanFaults == {"none", "pool", "clean", "clean_dependents"}

CleanTable(current_admin_user, admin_password_attempt, db_selection, table_name, clean_dependents, foreign_keys, fault) ==
    /\ \E r \in {clean_table_with_auth(redb, sqlite, current_admin_user,
                                       admin_password_attempt, db_selection,
                                       table_name, clean_dependents,
                                       foreign_keys, fault)} :
           /\ Reached(fault, r)
           /\ Returns(r)
           /\ last' = Call("clean_table", 0, fault, r.res, NoForm)
    /\ UNCHANGED <<allocated, now, approved_at, running>>

\* ---------------------------------------------- table browser: delete rows
\* Most dependents one delete_rows call lists.
MaxDependents == 1

\* The main row and the dependents of a call, as (table, row id) pairs.
Pairs(main_table, main_row_id, dependents) ==
    <<[table_name |-> main_table, row_id |-> main_row_id]>> \o dependents

\* A pair of the call names the row.
Listed(pairs, table_name, key) ==
    \E i \in 1..Len(pairs) :
        pairs[i].table_name = table_name /\ pairs[i].row_id = key

\* delete_redb_rows that commits the removals made before the pair it
\* fails on.
delete_redb_rows_committing_as_it_goes(kv, main_table, main_row_id, dependents, fault) ==
    LET pairs == Pairs(main_table, main_row_id, dependents)
        bad == {i \in 1..Len(pairs) : \/ ~IsUuid(pairs[i].row_id)
                                      \/ pairs[i].table_name \notin RedbTables}
        done == IF bad = {} THEN pairs
                ELSE SubSeq(pairs, 1, (CHOOSE i \in bad : \A j \in bad : i <= j) - 1)
    IN  IF fault = "transaction" THEN [res |-> "RedbError", kv |-> kv]
        ELSE [res |-> IF bad = {} THEN "Ok"
                      ELSE IF ~IsUuid(pairs[CHOOSE i \in bad : \A j \in bad : i <= j].row_id)
                      THEN "UuidError" ELSE "NotFound",
              kv |-> [t \in DOMAIN kv |->
                        IF t \notin RedbTables THEN kv[t]
                        ELSE [k \in {k \in DOMAIN kv[t] :
                                       ~Listed(done, t, UuidString(k))} |->
                                kv[t][k]]]]

\* delete_redb_rows: one write transaction removes the main row, then each
\* dependent; a row id that is no uuid or a table with_redb_table does not
\* open ends it uncommitted.
delete_redb_rows(kv, main_table, main_row_id, dependents, fault) ==
    LET pairs == Pairs(main_table, main_row_id, dependents)
        bad == {i \in 1..Len(pairs) : \/ ~IsUuid(pairs[i].row_id)
                                      \/ pairs[i].table_name \notin RedbTables}
    IN  IF fault = "transaction" THEN [res |-> "RedbError", kv |-> kv]
        ELSE IF bad # {}
        THEN LET first == CHOOSE i \in bad : \A j \in bad : i <= j
             IN  [res |-> IF ~IsUuid(pairs[first].row_id) THEN "UuidError"
                          ELSE "NotFound",
                  kv |-> kv]
        ELSE [res |-> "Ok",
              kv |-> [t \in DOMAIN kv |->
                        IF t \notin RedbTables THEN kv[t]
                        ELSE [k \in {k \in DOMAIN kv[t] :
                                       ~Listed(pairs, t, UuidString(k))} |->
                                kv[t][k]]]]

\* delete_sqlite_rows: one SQL transaction of DELETE FROM <table> WHERE
\* <pk> = ?1 for the main row, then each dependent; a table the schema does
\* not have, or one without the pk column, rolls it back.
delete_sqlite_rows(sq, main_table, main_row_id, dependents, foreign_keys, fault) ==
    LET pairs == Pairs(main_table, main_row_id, dependents)
    IN  IF fault = "transaction" THEN [res |-> "SqliteError", sq |-> sq]
        ELSE IF \E i \in 1..Len(pairs) :
                    pairs[i].table_name \notin DOMAIN SqliteColumns
        THEN [res |-> "SqliteError", sq |-> sq]
        ELSE [res |-> "Ok",
              sq |-> Cascaded(sq,
                        [t \in DOMAIN sq |->
                           {r \in sq[t] :
                              ~Listed(pairs, t, KeyString(t, r))}],
                        foreign_keys)]

\* delete_table_rows: the store is chosen by db_selection.
delete_table_rows(kv, sq, db_selection, table_name, row_id, dependents, foreign_keys, fault) ==
    IF db_selection = "PostsDb"
    THEN LET r == delete_redb_rows(kv, table_name, row_id, dependents, fault)
         IN  Result(r.kv, sq, r.res)
    ELSE IF fault = "pool" THEN Result(kv, sq, "PoolError")
    ELSE LET r == delete_sqlite_rows(sq, table_name, row_id, dependents,
                                     foreign_keys, fault)
         IN  Result(kv, r.sq, r.res)

\* The dependents a call can list: rows of a content table, of a
\* relational table and of a table the browser does not open.
Dependents ==
    [table_name : {"metadata", "pending_metadata", "post_ownership",
                   "tag_index"},
     row_id : RowIds]
DependentLists ==
    UNION {[1..n -> Dependents] : n \in 0..MaxDependents}
DeleteRowsFaults == {"none", "pool", "transaction"}

DeleteTableRows(db_selection, table_name, row_id, dependents, foreign_keys, fault) ==
    /\ \E r \in {delete_table_rows(redb, sqlite, db_selection, table_name,
                                   row_id, dependents, foreign_keys, fault)} :
           /\ Reached(fault, r)
           /\ Returns(r)
           /\ last' = Call("delete_rows", 0, fault, r.res, NoForm)
    /\ UNCHANGED <<allocated, now, approved_at, running>>

\* ------------------------------------------- table browser: specification
\* The calls that bring rows into the stores the browser works on.
BrowserSubmit ==
    /\ allocated < MaxPosts
    /\ \E u \in sqlite.users : SubmitCall(u.id, FormPlain, "none")
    /\ Completed

BrowserApprove == \E i \in Ids : Approve(i, "none") /\ Completed

BrowserUpdateCell ==
    \E db_selection \in DbSelection, table_name \in BrowserTables,
       row_id \in RowIds, column_name \in Columns, value \in CellValues,
       fault \in CellFaults :
        UpdateCell(db_selection, table_name, row_id, column_name, value, fault)

BrowserCleanTable ==
    \E u \in UserIds, p \in UserIds, db_selection \in DbSelection,
       table_name \in BrowserTables, clean_dependents \in BOOLEAN,
       foreign_keys \in BOOLEAN, fault \in CleanFaults :
        CleanTable(Usernames[u], Passwords[p], db_selection, table_name,
                   clean_dependents, foreign_keys, fault)

UpdateCellNext ==
    \/ BrowserSubmit
    \/ BrowserApprove
    \/ BrowserUpdateCell

SpecUpdateCell == Init /\ [][UpdateCellNext]_vars

CleanTableNext ==
    \/ BrowserSubmit
    \/ BrowserApprove
    \/ BrowserCleanTable

SpecCleanTable == Init /\ [][CleanTableNext]_vars

BrowserDeleteRows ==
    \E db_selection \in DbSelection, table_name \in BrowserTables,
       row_id \in RowIds, dependents \in DependentLists,
       foreign_keys \in BOOLEAN, fault \in DeleteRowsFaults :
        DeleteTableRows(db_selection, table_name, row_id, dependents,
                        foreign_keys, fault)

DeleteRowsNext ==
    \/ BrowserSubmit
    \/ BrowserApprove
    \/ BrowserDeleteRows

SpecDeleteRows == Init /\ [][DeleteRowsNext]_vars

\* The attempt verifies against the stored hash of the requesting admin.
PasswordVerifies(current_admin_user, admin_password_attempt) ==
    \E u \in sqlite.users :
        /\ u.username = current_admin_user
        /\ bcrypt_verify(admin_password_attempt, u.password_hash)

\* The schema marks the named table cleanable.
Cleanable(table_name) ==
    \E t \in DbTables : t.name = table_name /\ t.cleanable

\* C17: whatever the stores hold, clean_table with a password that does not
\* verify against the requesting admin's hash returns InvalidCredentials,
\* with a verified password and a table the schema does not mark cleanable
\* it returns Forbidden, and unless the password verifies and the table is
\* cleanable neither store is changed (also when a store call fails).
C17_CleanTableGuards ==
    \A u \in UserIds, p \in UserIds, db_selection \in DbSelection,
       table_name \in BrowserTables, clean_dependents \in BOOLEAN,
       foreign_keys \in BOOLEAN, fault \in CleanFaults :
        LET r == clean_table_with_auth(redb, sqlite, Usernames[u],
                                       Passwords[p], db_selection, table_name,
                                       clean_dependents, foreign_keys, fault)
            verified == PasswordVerifies(Usernames[u], Passwords[p])
        IN  /\ (fault = "none" /\ ~verified)
                => r = Result(redb, sqlite, "InvalidCredentials")
            /\ (fault = "none" /\ verified /\ ~Cleanable(table_name))
                => r = Result(redb, sqlite, "Forbidden")
            /\ (~verified \/ ~Cleanable(table_name))
                => (r.redb = redb /\ r.sqlite = sqlite)

\* A clean_table has been refused with InvalidCredentials while the
\* cleanable tables pending_posts and pending_post_ownership hold a row.
C17_Witness ==
    /\ last.op = "clean_table" /\ last.res = "InvalidCredentials"
    /\ redb.pending_posts # EmptyTable
    /\ sqlite.pending_post_ownership # {}

\* The content table of r is the present one without the rows the pairs
\* list; the relational table likewise.
RedbTableLess(r, pairs, t) ==
    /\ DOMAIN r.redb[t] =
           {k \in DOMAIN redb[t] : ~Listed(pairs, t, UuidString(k))}
    /\ \A k \in DOMAIN r.redb[t] : r.redb[t][k] = redb[t][k]
SqliteTableLess(r, pairs, t) ==
    r.sqlite[t] = {row \in sqlite[t] : ~Listed(pairs, t, KeyString(t, row))}

\* C18: whatever the stores hold, a delete_rows that returns Ok has removed
\* the main row and the listed (table, row id) pairs and nothing else:
\* every other content row, every index entry and every relational row is
\* as it was.
C18_DeleteRowsExactly ==
    \A db_selection \in DbSelection, table_name \in BrowserTables,
       row_id \in RowIds, dependents \in DependentLists,
       foreign_keys \in BOOLEAN, fault \in DeleteRowsFaults :
        LET r == delete_table_rows(redb, sqlite, db_selection, table_name,
                                   row_id, dependents, foreign_keys, fault)
            pairs == Pairs(table_name, row_id, dependents)
        IN  r.res = "Ok" =>
              IF db_selection = "PostsDb"
              THEN /\ r.sqlite = sqlite
                   /\ \A t \in RedbTables : RedbTableLess(r, pairs, t)
                   /\ \A t \in DOMAIN redb \ RedbTables : r.redb[t] = redb[t]
              ELSE /\ r.redb = redb
                   /\ \A t \in DOMAIN sqlite : SqliteTableLess(r, pairs, t)

\* ------------------------------------------- write transactions of a call
\* The key-value store as the call of the step leaves it when each of its
\* store calls succeeds (who calls does not matter to the key-value store).
WholeEffect ==
    CASE last'.op = "submit" ->
           submit_post_for_approval(redb, sqlite, last'.id, now, 1,
                                    last'.arg, "none").redb
      [] last'.op = "update_pending" ->
           contributor_update_pending_post(redb, sqlite, last'.id, now,
                                           last'.arg, "none").redb
      [] last'.op = "approve" ->
           approve_post(redb, sqlite, last'.id, "none").redb
      [] last'.op = "re_submit" ->
           re_submit_for_approval(redb, sqlite, last'.id, now, 1,
                                  last'.arg, "none").redb
      [] last'.op = "update_post" ->
           update_post(redb, last'.id, now, last'.arg.title,
                       last'.arg.content, last'.arg.tags,
                       last'.arg.search_keywords).kv
      [] last'.op = "delete_pending" ->
           contributor_delete_pending_post(redb, sqlite, last'.id,
                                           "none").redb
      [] last'.op = "delete_post" ->
           delete_post(redb, sqlite, last'.id, "none").redb

\* C19: a call's key-value mutations are one write transaction: when it
\* returns, with Ok or with an error, the key-value store holds either all
\* of its effect or none of it.
C19_OneWriteTransaction ==
    [][CallReturns => (redb' = redb \/ redb' = WholeEffect)]_vars

\* What a call returns when a relational-store call of it failed: no
\* connection, a failed statement, no row where one is needed, a
\* constraint.
RelationalErrors ==
    {"PoolError", "SqliteError", "NoRows", "ConstraintViolation"}

\* C20: when submit, approve, re-submit-for-edit or delete-published
\* returns because a relational-store call failed, the key-value store
\* holds exactly the rows it held before the call.
C20_RelationalFailureKeepsKv ==
    [][(/\ CallReturns
        /\ last'.op \in {"submit", "approve", "re_submit", "delete_post"}
        /\ last'.res \in RelationalErrors)
          => redb' = redb]_vars

\* ------------------------------------------------ ownership of the published
\* C21: after any sequence of lifecycle calls none of which met a store
\* failure, every id in the published posts table has exactly one
\* post_ownership row.
C21_PublishedHasOneOwner ==
    \A id \in Ids :
        Has(redb.posts, id) => Cardinality(OwnershipRows(id)) = 1

\* A post published again after a re-submit: approve has returned Ok and
\* the one ownership row of the published post carries an edit-log entry.
C21_Witness ==
    /\ last.op = "approve" /\ last.res = "Ok"
    /\ Has(redb.posts, last.id)
    /\ \E row \in OwnershipRows(last.id) : Len(row.edit_log) = 1

\* ----------------------------------------------------- content and metadata
\* C22: in every state the lifecycle calls reach, failed calls included, an
\* id has a row in posts iff it has one in metadata, and a row in
\* pending_posts iff it has one in pending_metadata.
C22_ContentIffMetadata ==
    \A id \in Ids :
        /\ Has(redb.posts, id) <=> Has(redb.metadata, id)
        /\ Has(redb.pending_posts, id) <=> Has(redb.pending_metadata, id)

\* An approve has failed between its two write transactions: the id has
\* both halves in the published pairing and both in the pending pairing.
C22_Witness ==
    /\ last.op = "approve" /\ last.res = "RedbError"
    /\ Has(redb.posts, last.id) /\ Has(redb.metadata, last.id)
    /\ Has(redb.pending_posts, last.id)
    /\ Has(redb.pending_metadata, last.id)

\* An id has one half of a pairing: content without metadata or metadata
\* without content.
HalfPending(id) == Has(redb.pending_posts, id) # Has(redb.pending_metadata, id)
HalfPublished(id) == Has(redb.posts, id) # Has(redb.metadata, id)

\* C23: whatever the stores hold, for an id with one half of a pairing the
\* adapter's update_pending_post, approve_post and (in the published
\* pairing) update_post and move_published_to_pending report NotFound and
\* leave the key-value store as it is.
C23_HalfPairingIsNotFound ==
    \A id \in Ids, f \in Forms :
        /\ HalfPending(id) =>
             /\ update_pending_post(redb, id, now, f.title, f.content, f.tags,
                                    f.search_keywords)
                    = [res |-> "NotFound", kv |-> redb]
             /\ approve_post(redb, sqlite, id, "none")
                    = Result(redb, sqlite, "NotFound")
        /\ HalfPublished(id) =>
             /\ update_post(redb, id, now, f.title, f.content, f.tags,
                            f.search_keywords)
                    = [res |-> "NotFound", kv |-> redb]
             /\ move_published_to_pending(redb, id)
                    = [res |-> "NotFound", kv |-> redb]

\* ------------------------------------------------- reads by identifier
\* read_post_summary_by_id: a string that is no uuid is Ok(None).
read_post_summary_by_id(kv, id) ==
    IF ~IsUuid(id) THEN [res |-> "Ok", found |-> None]
    ELSE IF Has(kv.metadata, id[2])
    THEN [res |-> "Ok",
          found |-> Some([id |-> id[2], metadata |-> kv.metadata[id[2]]])]
    ELSE [res |-> "Ok", found |-> None]

\* read_post: None for a string that is no uuid and unless both rows exist.
read_post(kv, id) ==
    IF ~IsUuid(id) THEN None
    ELSE IF Has(kv.posts, id[2]) /\ Has(kv.metadata, id[2])
    THEN Some([id |-> id[2], content |-> kv.posts[id[2]],
               metadata |-> kv.metadata[id[2]]])
    ELSE None

\* get_redb_table_data: with a search_id the row of that uuid, if any;
\* without one the rows from the greatest key down, offset skipped and
\* limit taken.
get_redb_table_data(kv, table_name, limit, offset, search_id) ==
    IF search_id # None
    THEN IF ~IsUuid(search_id[1]) THEN [res |-> "UuidError", data |-> <<>>]
         ELSE IF Has(kv[table_name], search_id[1][2])
         THEN [res |-> "Ok",
               data |-> <<[id |-> search_id[1][2],
                           value |-> kv[table_name][search_id[1][2]]]>>]
         ELSE [res |-> "Ok", data |-> <<>>]
    ELSE LET keys == DOMAIN kv[table_name]
             down == [i \in 1..Cardinality(keys) |->
                        CHOOSE k \in keys :
                            Cardinality({j \in keys : j > k}) = i - 1]
             last_taken == IF offset + limit < Len(down) THEN offset + limit
                           ELSE Len(down)
             taken == SubSeq(down, offset + 1, last_taken)
         IN  [res |-> "Ok",
              data |-> [i \in 1..Len(taken) |->
                          [id |-> taken[i], value |-> kv[table_name][taken[i]]]]]

\* C24: whatever the stores hold, for every string that is no identifier
\* search-by-id and the table browser's exact-id filter return an empty
\* result and read_post returns absence, none of them an error.
C24_MalformedIdIsNotFound ==
    \A id \in RowIds :
        ~IsUuid(id) =>
            /\ read_post_summary_by_id(redb, id) = [res |-> "Ok", found |-> None]
            /\ read_post(redb, id) = None
            /\ \A table_name \in RedbTables :
                   get_redb_table_data(redb, table_name, 1, 0, Some(id))
                       = [res |-> "Ok", data |-> <<>>]

\* ------------------------------------------------------- published reads
\* read_post_summaries_by_keyword: as the tag lookup, over the keyword index.
read_post_summaries_by_keyword(kv, keyword, limit, offset) ==
    LET lower_keyword == ToLower(keyword)
        range == InKeyOrder({k \in kv.search_appear_keyword_index :
                                 k[1] = lower_keyword})
        last_taken == IF offset + limit < Len(range) THEN offset + limit
                      ELSE Len(range)
        taken == SubSeq(range, offset + 1, last_taken)
        found == SelectSeq(taken, LAMBDA k : Has(kv.metadata, k[3]))
    IN  [i \in 1..Len(found) |->
            [id |-> found[i][3], metadata |-> kv.metadata[found[i][3]]]]

\* read_post_summaries_by_title: the metadata rows in key order whose
\* lowercased title contains the lowercased query, stably sorted by
\* created_at descending, offset skipped and limit taken.
read_post_summaries_by_title(kv, title_query, limit, offset) ==
    LET query == ToLower(title_query)
        matching == {id \in DOMAIN kv.metadata :
                        Contains(ToLower(kv.metadata[id].title), query)}
        Before(a, b) == \/ kv.metadata[a].created_at > kv.metadata[b].created_at
                        \/ /\ kv.metadata[a].created_at = kv.metadata[b].created_at
                           /\ a < b
        sorted == [i \in 1..Cardinality(matching) |->
                     CHOOSE id \in matching :
                         Cardinality({o \in matching : Before(o, id)}) = i - 1]
        last_taken == IF offset + limit < Len(sorted) THEN offset + limit
                      ELSE Len(sorted)
        taken == SubSeq(sorted, offset + 1, last_taken)
    IN  [i \in 1..Len(taken) |->
            [id |-> taken[i], metadata |-> kv.metadata[taken[i]]]]

\* get_post_ids_for_tag: the ids of the keys of the lowercased tag.
get_post_ids_for_tag(kv, tag) == {k[3] : k \in {e \in kv.tag_index : e[1] = ToLower(tag)}}

\* read_post_summaries_by_tags_intersection: the ids every tag has, joined
\* with the metadata table, sorted by created_at descending, offset skipped
\* and limit taken.  The ids come out of a hash set, so posts of one
\* created_at may come in any order: the value is the set of the lists the
\* call can return.
read_post_summaries_by_tags_intersection(kv, tags, limit, offset) ==
    IF tags = <<>> THEN {<<>>}
    ELSE LET intersecting_ids ==
                 {id \in get_post_ids_for_tag(kv, tags[1]) :
                      \A i \in 2..Len(tags) : id \in get_post_ids_for_tag(kv, tags[i])}
             joined == {id \in intersecting_ids : Has(kv.metadata, id)}
             orders == {s \in [1..Cardinality(joined) -> joined] :
                           /\ \A i, j \in DOMAIN s : i # j => s[i] # s[j]
                           /\ \A i, j \in DOMAIN s :
                                  i < j => kv.metadata[s[i]].created_at
                                               >= kv.metadata[s[j]].created_at}
         IN  {[i \in 1..Len(SubSeq(s, offset + 1,
                                   IF offset + limit < Len(s)
                                   THEN offset + limit ELSE Len(s))) |->
                  [id |-> s[offset + i], metadata |-> kv.metadata[s[offset + i]]]]
              : s \in orders}

\* The post is in the pending tables and in neither published table.
PendingOnly(id) ==
    /\ Has(redb.pending_posts, id) /\ Has(redb.pending_metadata, id)
    /\ ~Has(redb.posts, id) /\ ~Has(redb.metadata, id)

SummaryIds(summaries) == {summaries[i].id : i \in DOMAIN summaries}

\* The tags, keywords and title queries the reads are asked with: every tag
\* and keyword a form can bring into an index, and pieces of the titles.
AskedTerms ==
    UNION {p[2] : p \in AllTags \cup Keywords} \cup {<<>>, <<"t">>, <<"T">>, <<"b">>}

\* C25: a post that is in the pending tables and absent from the published
\* tables is returned by no published-post read, whatever is asked: latest
\* posts, lookup by tag, by keyword, by title, by id, by tags-intersection,
\* read_post.
C25_PendingIsNeverRead ==
    \A id \in Ids :
        PendingOnly(id) =>
            /\ read_post(redb, UuidString(id)) = None
            /\ read_post_summary_by_id(redb, UuidString(id)).found = None
            /\ \A limit \in 0..(MaxPosts + 1), offset \in 0..MaxPosts :
                   /\ id \notin SummaryIds(read_latest_post_summaries(redb, limit, offset))
                   /\ \A term \in AskedTerms :
                          /\ id \notin SummaryIds(read_post_summaries_by_tag(redb, term, limit, offset))
                          /\ id \notin SummaryIds(read_post_summaries_by_keyword(redb, term, limit, offset))
                          /\ id \notin SummaryIds(read_post_summaries_by_title(redb, term, limit, offset))
                          /\ \A other \in AskedTerms :
                                 \A list \in read_post_summaries_by_tags_intersection(
                                                 redb, <<term, other>>, limit, offset) :
                                     id \notin SummaryIds(list)

\* A published post has been re-submitted for edit: it is pending only, and
\* the chronological index and the tag index still hold keys of its id.
C25_Witness ==
    /\ last.op = "re_submit" /\ last.res = "Ok"
    /\ PendingOnly(last.id)
    /\ EntriesOf(redb.chronological_index, last.id) # {}
    /\ EntriesOf(redb.tag_index, last.id) # {}

\* --------------------------------------------------- order of delete_post
\* C26: delete_post deletes the post_ownership row before the key-value
\* transaction: whatever step it stops at, content it has removed has no
\* ownership row, an ownership row it has left means the key-value store is
\* untouched, and a failed key-value step leaves the content without its
\* ownership row.
C26_OwnershipDeletedFirst ==
    [][(CallReturns /\ last'.op = "delete_post")
           => /\ (Has(redb.posts, last'.id) /\ ~Has(redb'.posts, last'.id))
                     => RowsOf(sqlite'.post_ownership, last'.id) = {}
              /\ RowsOf(sqlite'.post_ownership, last'.id) # {} => redb' = redb
              /\ last'.res = "RedbError"
                     => /\ redb' = redb
                        /\ RowsOf(sqlite'.post_ownership, last'.id) = {}]_vars

\* delete_post has failed in its key-value step on a published post: the
\* content is there and its ownership row is gone.
C26_Witness ==
    /\ last.op = "delete_post" /\ last.res = "RedbError"
    /\ Has(redb.posts, last.id) /\ Has(redb.metadata, last.id)
    /\ RowsOf(sqlite.post_ownership, last.id) = {}
    /\ approved_at # {}

\* ------------------------------------------------------------ edit log
\* The longest edit log of the edit-log specification.
EditLimit == 3

\* One post submitted, approved and re-submitted for edit by either user up
\* to EditLimit times, the re-submit failing at any of its steps.
EditNext ==
    \/ Tick
    \/ Submit(1, FormPlain, "none")
    \/ \E i \in Ids : Approve(i, "none")
    \/ \E i \in Ids, u \in UserIds, fault \in ReSubmitFaults :
           /\ \A row \in RowsOf(sqlite.post_ownership, i) :
                  Len(row.edit_log) < EditLimit
           /\ ReSubmitCall(i, u, FormPlain, fault)

SpecEdits == Init /\ [][EditNext]_vars

\* The edit log of the post_ownership row of the post (empty without a row).
EditLogOf(sq, id) ==
    IF RowsOf(sq.post_ownership, id) = {} THEN <<>>
    ELSE (CHOOSE row \in RowsOf(sq.post_ownership, id) : TRUE).edit_log

\* C27: every edit log is numbered 1, 2, ..., n in order; a re-submit that
\* appends an entry numbers it with the length of the log before plus one;
\* and a re-submit changes the key-value store only after it has appended.
C27_EditNumbersInOrder ==
    [][/\ \A row \in sqlite'.post_ownership :
              \A i \in 1..Len(row.edit_log) : row.edit_log[i].edit_number = i
       /\ (CallReturns /\ last'.op = "re_submit")
              => LET before == EditLogOf(sqlite, last'.id)
                     after == EditLogOf(sqlite', last'.id)
                 IN  /\ after # before
                            => /\ Len(after) = Len(before) + 1
                               /\ SubSeq(after, 1, Len(before)) = before
                               /\ after[Len(after)].edit_number = Len(before) + 1
                     /\ redb' # redb => Len(after) = Len(before) + 1
                     /\ (last'.fault = "move" /\ last'.res = "RedbError")
                            => redb' = redb /\ Len(after) = Len(before) + 1]_vars

\* A third re-submit has returned Ok: the log of the post has three entries.
C27_Witness ==
    /\ last.op = "re_submit" /\ last.res = "Ok"
    /\ Len(EditLogOf(sqlite, last.id)) = EditLimit
    /\ PendingOnly(last.id)

\* ------------------------------------------------------- generate_all_tags
\* The characters and the greatest length of the tag strings handed to
\* generate_all_tags.
TagChars == {"a", "B", "/", ",", " "}
MaxTagLen == 4
TagStrings == UNION {[1..n -> TagChars] : n \in 0..MaxTagLen}

\* A tags_str has been typed into a form.
TagsInit ==
    /\ redb = EmptyRedb
    /\ sqlite = EmptySqlite
    /\ allocated = 0
    /\ now = StartTime
    /\ approved_at = {}
    /\ running = Idle
    /\ \E tags_str \in TagStrings :
           last = Call("init", 0, "none", "Ok", [NoForm EXCEPT !.tags = tags_str])

\* generate_all_tags is applied to the string and its tags are inserted into
\* the tag index, as the write transactions do.
IndexTags ==
    /\ last.op = "init"
    /\ redb' = [redb EXCEPT !.tag_index =
                   @ \cup TagKeys(generate_all_tags(last.arg.tags), 0 - now, 1)]
    /\ last' = Call("generate_all_tags", 1, "none", "Ok", last.arg)
    /\ UNCHANGED <<sqlite, allocated, now, approved_at, running>>

SpecTags == TagsInit /\ [][IndexTags]_vars

\* The tags of the index.
IndexedTags == {k[1] : k \in redb.tag_index}

\* The trimmed, lowercased, non-empty tags of a comma-separated string.
WrittenTags(tags_str) ==
    {ToLower(Trim(p)) : p \in Range(Split(tags_str, ","))} \ {<<>>}

\* The trimmed segments of a tag and the prefix paths built from them.
SegmentsAndPaths(tag) ==
    LET parts == MapSeq(Trim, Split(tag, "/"))
    IN  {parts[i] : i \in 1..Len(parts)}
            \cup {Join(SubSeq(parts, 1, i), <<"/">>) : i \in 1..Len(parts)}

\* C28: generate_all_tags returns exactly each trimmed, lowercased, non-empty
\* tag and, for each tag holding a '/', every segment and every prefix path
\* of it; the result holds neither the empty string nor a path with an empty
\* segment.
C28_GeneratedTags ==
    last.op = "generate_all_tags"
        => /\ IndexedTags =
                  WrittenTags(last.arg.tags) \cup
                  UNION {SegmentsAndPaths(t) :
                             t \in {w \in WrittenTags(last.arg.tags) :
                                        "/" \in Range(w)}}
           /\ <<>> \notin IndexedTags
           /\ \A t \in IndexedTags : <<>> \notin Range(Split(t, "/"))

\* ------------------------------------------- update_cell of the tags field
\* C29: whatever the stores hold, update_cell of the tags field of a
\* published metadata row changes that metadata row and nothing else: the
\* tag index, the keyword index and the chronological index, every other
\* table and row of the key-value store and the relational store are as
\* before.
C29_TagsCellChangesOnlyTheRow ==
    \A id \in Ids, value \in CellValues, fault \in CellFaults :
        Has(redb.metadata, id)
            => LET r == update_table_cell(redb, sqlite, "PostsDb", "metadata",
                                          UuidString(id), "tags", value, fault)
               IN  /\ r.redb.tag_index = redb.tag_index
                   /\ r.redb.search_appear_keyword_index
                          = redb.search_appear_keyword_index
                   /\ r.redb.chronological_index = redb.chronological_index
                   /\ r.redb = [redb EXCEPT !.metadata = r.redb.metadata]
                   /\ DOMAIN r.redb.metadata = DOMAIN redb.metadata
                   /\ \A other \in DOMAIN redb.metadata \ {id} :
                          r.redb.metadata[other] = redb.metadata[other]
                   /\ r.sqlite = sqlite
                   /\ fault = "none"
                          => /\ r.res = "Ok"
                             /\ r.redb.metadata[id] =
                                    [redb.metadata[id] EXCEPT
                                        !.tags = CellTags(value)]

\* An update_cell has set the tags of a published post to the one tag k
\* while the tag index holds the keys of its tag a/b.
C29_Witness ==
    /\ last.op = "update_cell" /\ last.res = "Ok"
    /\ \E id \in Ids :
           /\ Has(redb.metadata, id)
           /\ redb.metadata[id].tags = <<FormPlain.search_keywords>>
           /\ {k[1] : k \in EntriesOf(redb.tag_index, id)}
                  = generate_all_tags(FormPlain.tags)

\* ------------------------------------- approve and delete-pending at once
\* approve_post and delete_pending_post are called on the same pending id;
\* each goes through its store calls one at a time, the other in between.
StartRace(id) ==
    /\ running = Idle
    /\ id \in 1..allocated
    /\ Has(redb.pending_posts, id) /\ Has(redb.pending_metadata, id)
    /\ running' = [id |-> id,
                   approve |-> [pc |-> "read", read |-> None,
                                author_id |-> None, res |-> None],
                   delete_pending |-> [pc |-> "delete_pending_post",
                                       res |-> None]]
    /\ UNCHANGED <<redb, sqlite, allocated, now, last, approved_at>>

\* The next store call of approve_post, no call failing: the read of the
\* pending rows, the two queries of get_pending_post_owner_id, INSERT OR
\* IGNORE, the publishing transaction, delete_pending_post and
\* delete_pending_post_ownership. The content and metadata it publishes are
\* the ones it read.
approve_post_step(call, id) ==
    IF call.pc = "read"
    THEN IF Has(redb.pending_posts, id) /\ Has(redb.pending_metadata, id)
         THEN [kv |-> redb, sq |-> sqlite,
               call |-> [call EXCEPT
                           !.pc = "owner_pending",
                           !.read = Some([content |-> redb.pending_posts[id],
                                          metadata |-> redb.pending_metadata[id]])]]
         ELSE [kv |-> redb, sq |-> sqlite,
               call |-> [call EXCEPT !.pc = "done", !.res = Some("NotFound")]]
    ELSE IF call.pc = "owner_pending"
    THEN IF RowsOf(sqlite.pending_post_ownership, id) # {}
         THEN [kv |-> redb, sq |-> sqlite,
               call |-> [call EXCEPT
                           !.pc = "insert",
                           !.author_id = Some((CHOOSE r \in RowsOf(sqlite.pending_post_ownership, id) : TRUE).user_id)]]
         ELSE [kv |-> redb, sq |-> sqlite,
               call |-> [call EXCEPT !.pc = "owner_published"]]
    ELSE IF call.pc = "owner_published"
    THEN IF RowsOf(sqlite.post_ownership, id) # {}
         THEN [kv |-> redb, sq |-> sqlite,
               call |-> [call EXCEPT
                           !.pc = "insert",
                           !.author_id = Some((CHOOSE r \in RowsOf(sqlite.post_ownership, id) : TRUE).user_id)]]
         ELSE [kv |-> redb, sq |-> sqlite,
               call |-> [call EXCEPT !.pc = "done", !.res = Some("NoRows")]]
    ELSE IF call.pc = "insert"
    THEN [kv |-> redb,
          sq |-> [sqlite EXCEPT !.post_ownership =
                    InsertOrIgnoreOwnership(@, id, call.author_id[1]).table],
          call |-> [call EXCEPT !.pc = "publish"]]
    ELSE IF call.pc = "publish"
    THEN [kv |-> ApprovePublish(redb, id, call.read[1].content,
                                call.read[1].metadata),
          sq |-> sqlite,
          call |-> [call EXCEPT !.pc = "delete_pending_post"]]
    ELSE IF call.pc = "delete_pending_post"
    THEN [kv |-> delete_pending_post(redb, id), sq |-> sqlite,
          call |-> [call EXCEPT !.pc = "delete_pending_post_ownership"]]
    ELSE [kv |-> redb,
          sq |-> [sqlite EXCEPT !.pending_post_ownership = DeleteRows(@, id)],
          call |-> [call EXCEPT !.pc = "done", !.res = Some("Ok")]]

\* The next store call of the first approve_post in flight.
ApproveStep ==
    LET next == approve_post_step(running.approve, running.id)
    IN  /\ running.approve.pc \notin {"idle", "done"}
        /\ redb' = next.kv
        /\ sqlite' = next.sq
        /\ running' = [running EXCEPT !.approve = next.call]
        /\ UNCHANGED <<allocated, now, last, approved_at>>

\* The next store call of the delete_pending_post helper, no call failing:
\* delete_pending_post, then delete_pending_post_ownership.
DeletePendingStep ==
    /\ running.delete_pending.pc \notin {"idle", "done"}
    /\ IF running.delete_pending.pc = "delete_pending_post"
       THEN /\ redb' = delete_pending_post(redb, running.id)
            /\ sqlite' = sqlite
            /\ running' = [running EXCEPT
                              !.delete_pending.pc = "delete_pending_post_ownership"]
       ELSE /\ redb' = redb
            /\ sqlite' = [sqlite EXCEPT !.pending_post_ownership =
                             DeleteRows(@, running.id)]
            /\ running' = [running EXCEPT !.delete_pending.pc = "done",
                                          !.delete_pending.res = Some("Ok")]
    /\ UNCHANGED <<allocated, now, last, approved_at>>

\* Posts are submitted, approved and re-submitted one call at a time; then
\* approve and delete-pending run at once on a pending id.
RaceNext ==
    \/ running = Idle /\ Tick
    \/ \E u \in UserIds, f \in Forms : running = Idle /\ Submit(u, f, "none")
    \/ \E i \in Ids : running = Idle /\ Approve(i, "none")
    \/ \E i \in Ids, u \in UserIds : running = Idle /\ ReSubmit(i, u, FormPlain, "none")
    \/ \E i \in Ids : StartRace(i)
    \/ ApproveStep
    \/ DeletePendingStep

SpecRace == Init /\ [][RaceNext]_vars

\* The id is in no table of either store.
AbsentEverywhere(id) ==
    /\ ~Has(redb.posts, id) /\ ~Has(redb.metadata, id)
    /\ ~Has(redb.pending_posts, id) /\ ~Has(redb.pending_metadata, id)
    /\ EntriesOf(redb.tag_index, id) = {}
    /\ EntriesOf(redb.search_appear_keyword_index, id) = {}
    /\ EntriesOf(redb.chronological_index, id) = {}
    /\ RowsOf(sqlite.post_ownership, id) = {}
    /\ RowsOf(sqlite.pending_post_ownership, id) = {}

\* The id is published with one post_ownership row and nothing pending.
PublishedWithOneOwner(id) ==
    /\ Has(redb.posts, id) /\ Has(redb.metadata, id)
    /\ Cardinality(RowsOf(sqlite.post_ownership, id)) = 1
    /\ ~Has(redb.pending_posts, id) /\ ~Has(redb.pending_metadata, id)
    /\ RowsOf(sqlite.pending_post_ownership, id) = {}

\* C30: when approve and delete-pending of the same pending id have both
\* returned, whatever the order of their store calls, the id is either in no
\* table of either store or published with exactly one post_ownership row
\* and nothing pending.
C30_RaceEndsConsistent ==
    (running.approve.pc = "done" /\ running.delete_pending.pc = "done")
        => \/ AbsentEverywhere(running.id)
           \/ PublishedWithOneOwner(running.id)

\* ------------------------------------------------------------ created_at
\* The created_at values the stores hold for the id: of its published and
\* of its pending metadata row.
CreatedAts(kv, id) ==
    {kv.metadata[i].created_at : i \in {id} \cap DOMAIN kv.metadata}
        \cup {kv.pending_metadata[i].created_at :
                  i \in {id} \cap DOMAIN kv.pending_metadata}

\* C31: no lifecycle call changes the created_at of a content id: submit
\* sets it to the time of the call, every later call that keeps or rewrites
\* a metadata row of the id keeps its value, and every index key inserted
\* for the id carries the negation of that value.
C31_CreatedAtNeverChanges ==
    [][\A id \in Ids :
          /\ \A before \in CreatedAts(redb, id), after \in CreatedAts(redb', id) :
                 after = before
          /\ (last'.op = "submit" /\ last'.id = id /\ CallReturns
                  /\ Has(redb'.pending_metadata, id))
                 => CreatedAts(redb', id) = {now}
          /\ \A created_at \in CreatedAts(redb', id) :
                 /\ \A k \in EntriesOf(redb'.tag_index, id)
                            \ EntriesOf(redb.tag_index, id) : k[2] = 0 - created_at
                 /\ \A k \in EntriesOf(redb'.search_appear_keyword_index, id)
                            \ EntriesOf(redb.search_appear_keyword_index, id) :
                        k[2] = 0 - created_at
                 /\ \A k \in EntriesOf(redb'.chronological_index, id)
                            \ EntriesOf(redb.chronological_index, id) :
                        k[1] = 0 - created_at]_vars

\* A published post has been updated after the time of its submit: its
\* last_updated_at is the time of the call, its created_at an earlier one.
C31_Witness ==
    /\ last.op = "update_post" /\ last.res = "Ok"
    /\ Has(redb.metadata, last.id)
    /\ redb.metadata[last.id].last_updated_at = Some(now)
    /\ redb.metadata[last.id].created_at < now
    /\ \A row \in OwnershipRows(last.id) : Len(row.edit_log) = 1

\* ------------------------------------------------- tags before an edit
\* C32: the tag lookup returns a published post for a tag only if the tag is
\* in generate_all_tags of the tags its metadata holds now.
C32_FoundOnlyUnderCurrentTags ==
    \A id \in Ids, tag \in AskedTerms :
        (Has(redb.posts, id) /\ Has(redb.metadata, id) /\ Returned(tag, id))
            => ToLower(tag) \in MetaIndexTags(redb.metadata[id])

\* ------------------------------------ failed re-approval and ownership
\* C33: when approve is called on a pending id that has its post_ownership
\* row already and the publishing transaction fails, the row, with its owner
\* and edit log, is there after approve has returned the error.
C33_FailedReApprovalKeepsOwnership ==
    [][(/\ CallReturns
        /\ last'.op = "approve"
        /\ last'.fault \in {"publish", "publish_rollback"}
        /\ Has(redb.pending_posts, last'.id)
        /\ Has(redb.pending_metadata, last'.id)
        /\ RowsOf(sqlite.post_ownership, last'.id) # {})
           => /\ last'.res \in InjectedErrors
              /\ RowsOf(sqlite'.post_ownership, last'.id)
                     = RowsOf(sqlite.post_ownership, last'.id)]_vars

\* ---------------------------------------------- the author of a pending post
\* C34: every id in the pending tables has a pending_post_ownership row or
\* a post_ownership row, so get_pending_post_owner_id resolves its author.
C34_PendingHasAuthor ==
    \A id \in Ids :
        (Has(redb.pending_posts, id) \/ Has(redb.pending_metadata, id))
            => /\ RowsOf(sqlite.pending_post_ownership, id)
                      \cup RowsOf(sqlite.post_ownership, id) # {}
               /\ get_pending_post_owner_id(sqlite, id) # NoRows

\* ---------------------------------------------- two re-submits at once
\* Two editors call re_submit_for_approval on the same published post; each
\* call goes through its store calls one at a time, the other in between.
StartEdits(id, first, second) ==
    /\ running = Idle
    /\ id \in 1..allocated
    /\ Has(redb.posts, id) /\ Has(redb.metadata, id)
    /\ first # second
    /\ running' = [id |-> id,
                   log_before |-> EditLogOf(sqlite, id),
                   calls |-> [c \in {first, second} |->
                                [pc |-> "select", log |-> None, res |-> None]]]
    /\ UNCHANGED <<redb, sqlite, allocated, now, last, approved_at>>

\* The next store call of the re-submit of the editor, no call failing: the
\* SELECT of append_to_edit_log, its UPDATE with the log that was read and
\* the new entry, move_published_to_pending, update_pending_post.
ReSubmitStep(editor) ==
    LET id == running.id
        call == running.calls[editor]
        mv == move_published_to_pending(redb, id)
        up == contributor_update_pending_post(redb, sqlite, id, now, FormMarkup, "none")
        next == IF call.pc = "select"
                THEN IF RowsOf(sqlite.post_ownership, id) = {}
                     THEN [kv |-> redb, sq |-> sqlite,
                           call |-> [call EXCEPT !.pc = "done", !.res = Some("NoRows")]]
                     ELSE [kv |-> redb, sq |-> sqlite,
                           call |-> [call EXCEPT !.pc = "update",
                                                 !.log = Some(EditLogOf(sqlite, id))]]
                ELSE IF call.pc = "update"
                THEN [kv |-> redb,
                      sq |-> [sqlite EXCEPT !.post_ownership =
                                {IF r.post_id = id
                                 THEN [r EXCEPT !.edit_log =
                                         AppendedLog(call.log[1], Usernames[editor], now)]
                                 ELSE r : r \in @}],
                      call |-> [call EXCEPT !.pc = "move"]]
                ELSE IF call.pc = "move"
                THEN IF mv.res = "Ok"
                     THEN [kv |-> mv.kv, sq |-> sqlite,
                           call |-> [call EXCEPT !.pc = "update_pending"]]
                     ELSE [kv |-> redb, sq |-> sqlite,
                           call |-> [call EXCEPT !.pc = "done", !.res = Some(mv.res)]]
                ELSE [kv |-> up.redb, sq |-> sqlite,
                      call |-> [call EXCEPT !.pc = "done", !.res = Some(up.res)]]
    IN  /\ running # Idle
        /\ editor \in DOMAIN running.calls
        /\ call.pc # "done"
        /\ redb' = next.kv
        /\ sqlite' = next.sq
        /\ running' = [running EXCEPT !.calls[editor] = next.call]
        /\ UNCHANGED <<allocated, now, last, approved_at>>

\* Posts are submitted, approved and re-submitted one call at a time; then
\* two editors re-submit a published post at once.
EditRaceNext ==
    \/ running = Idle /\ Tick
    \/ \E u \in UserIds, f \in Forms : running = Idle /\ Submit(u, f, "none")
    \/ \E i \in Ids : running = Idle /\ Approve(i, "none")
    \/ \E i \in Ids, u \in UserIds : running = Idle /\ ReSubmit(i, u, FormPlain, "none")
    \/ \E i \in Ids, first \in UserIds, second \in UserIds : StartEdits(i, first, second)
    \/ \E editor \in UserIds : ReSubmitStep(editor)

SpecEditRace == Init /\ [][EditRaceNext]_vars

\* C35: when two re-submits of one post that ran at once have both returned,
\* each that returned success has an entry of its editor among the entries
\* the log gained, and no two entries of the log share an edit_number.
C35_ConcurrentAppendsAllKept ==
    (/\ running # Idle
     /\ \A editor \in DOMAIN running.calls : running.calls[editor].pc = "done")
        => LET log == EditLogOf(sqlite, running.id)
           IN  /\ \A editor \in DOMAIN running.calls :
                      running.calls[editor].res = Some("Ok")
                          => \E i \in (Len(running.log_before) + 1)..Len(log) :
                                 log[i].editor_username = Usernames[editor]
               /\ \A i, j \in 1..Len(log) :
                      i # j => log[i].edit_number # log[j].edit_number

\* ------------------------------------------- edit log and failed re-submits
\* C36: the edit log of a post counts its successful re-submits: a re-submit
\* that returns success adds one entry, a re-submit that returns an error
\* leaves the log as it was.
C36_LogCountsSuccessfulReSubmits ==
    [][(CallReturns /\ last'.op = "re_submit")
           => IF last'.res = "Ok"
              THEN Len(EditLogOf(sqlite', last'.id))
                       = Len(EditLogOf(sqlite, last'.id)) + 1
              ELSE EditLogOf(sqlite', last'.id) = EditLogOf(sqlite, last'.id)]_vars

\* ------------------------------------------------ the pages of read_latest
\* The published posts in descending created_at order (posts of one second
\* by id, as the keys of the chronological index), ranks offset + 1 to
\* offset + limit.
PublishedPage(limit, offset) ==
    LET ranked == InChronoOrder({<<0 - redb.metadata[id].created_at, id>> :
                                    id \in {i \in DOMAIN redb.metadata : Published(i)}})
        last_taken == IF offset + limit < Len(ranked) THEN offset + limit
                      ELSE Len(ranked)
        page == SubSeq(ranked, offset + 1, last_taken)
    IN  [i \in 1..Len(page) |-> page[i][2]]

\* C37: read_latest(limit, offset) returns exactly the published posts of
\* ranks offset + 1 to offset + limit in descending created_at order, so
\* min(limit, max(0, N - offset)) of the N published posts.
C37_LatestPageIsExact ==
    \A limit \in 0..LatestPosts, offset \in 0..LatestPosts :
        LET summaries == read_latest_post_summaries(redb, limit, offset)
        IN  [i \in 1..Len(summaries) |-> summaries[i].id]
                = PublishedPage(limit, offset)

\* ------------------------------------------------- two approves at once
\* approve_post is called twice on the same pending id; each call goes
\* through its store calls one at a time, the other in between. What one
\* approve alone would leave is kept for comparison.
StartApproves(id) ==
    /\ running = Idle
    /\ id \in 1..allocated
    /\ Has(redb.pending_posts, id) /\ Has(redb.pending_metadata, id)
    /\ running' = [id |-> id,
                   approve |-> [pc |-> "read", read |-> None,
                                author_id |-> None, res |-> None],
                   second |-> [pc |-> "read", read |-> None,
                               author_id |-> None, res |-> None],
                   single |-> approve_post(redb, sqlite, id, "none")]
    /\ UNCHANGED <<redb, sqlite, allocated, now, last, approved_at>>

\* The next store call of the second approve_post in flight.
SecondApproveStep ==
    LET next == approve_post_step(running.second, running.id)
    IN  /\ running # Idle
        /\ running.second.pc # "done"
        /\ redb' = next.kv
        /\ sqlite' = next.sq
        /\ running' = [running EXCEPT !.second = next.call]
        /\ UNCHANGED <<allocated, now, last, approved_at>>

\* Posts are submitted, approved and re-submitted one call at a time; then
\* a pending post is approved twice at once.
ApproveRaceNext ==
    \/ running = Idle /\ Tick
    \/ \E u \in UserIds, f \in Forms : running = Idle /\ Submit(u, f, "none")
    \/ \E i \in Ids : running = Idle /\ Approve(i, "none")
    \/ \E i \in Ids, u \in UserIds, f \in Forms : running = Idle /\ ReSubmit(i, u, f, "none")
    \/ \E i \in Ids : StartApproves(i)
    \/ ApproveStep
    \/ SecondApproveStep

SpecApproveRace == Init /\ [][ApproveRaceNext]_vars

BothApprovesReturned ==
    /\ running # Idle
    /\ running.approve.pc = "done" /\ running.second.pc = "done"

\* C38: when two approves of one pending id that ran at once have both
\* returned, the stores are as one approve alone would have left them: the
\* post published, exactly one post_ownership row, one chronological key,
\* the tag and keyword keys of its metadata and no others, and nothing
\* pending.
C38_TwoApprovesAsOne ==
    BothApprovesReturned
        => LET id == running.id
           IN  /\ redb = running.single.redb
               /\ sqlite = running.single.sqlite
               /\ Has(redb.posts, id) /\ Has(redb.metadata, id)
               /\ Cardinality(RowsOf(sqlite.post_ownership, id)) = 1
               /\ Cardinality(EntriesOf(redb.chronological_index, id)) = 1
               /\ EntriesOf(redb.tag_index, id)
                      = ExpectedTagEntries(redb.metadata[id], id)
               /\ EntriesOf(redb.search_appear_keyword_index, id)
                      = TagKeys(MetaIndexKeywords(redb.metadata[id]),
                                IndexTimestamp(redb.metadata[id]), id)
               /\ ~Has(redb.pending_posts, id) /\ ~Has(redb.pending_metadata, id)
               /\ RowsOf(sqlite.pending_post_ownership, id) = {}

\* --------------------------------- permissions on a re-submitted post
\* C39: a post that has been re-submitted for edit and is pending has no
\* pending_post_ownership row, so check_pending_permission refuses Edit to
\* every user and grants Delete exactly to admins and to users with
\* can_approve_posts.
C39_ReSubmittedPendingPermissions ==
    (last.op = "re_submit" /\ last.res = "Ok" /\ PendingOnly(last.id))
        => /\ RowsOf(sqlite.pending_post_ownership, last.id) = {}
           /\ \A user \in Contributors :
                  /\ ~check_pending_permission(sqlite, user, last.id, "Edit")
                  /\ check_pending_permission(sqlite, user, last.id, "Delete")
                         <=> (user.role = "admin" \/ user.can_approve_posts)

\* ------------------------------------------ delete_rows is all or nothing
\* C40: whatever the key-value store holds, a delete_rows of the posts
\* database whose main row id or a dependent's row id is no uuid, or one of
\* whose tables is none of the four content tables, returns an error and
\* removes no row, the rows of the pairs before the failing one included.
C40_DeleteRowsAllOrNothing ==
    \A table_name \in BrowserTables, row_id \in RowIds,
       dependents \in DependentLists :
        LET pairs == Pairs(table_name, row_id, dependents)
            r == delete_table_rows(redb, sqlite, "PostsDb", table_name, row_id,
                                   dependents, FALSE, "none")
        IN  IF \E i \in 1..Len(pairs) : \/ ~IsUuid(pairs[i].row_id)
                                         \/ pairs[i].table_name \notin RedbTables
            THEN r.res \in {"UuidError", "NotFound"}
                     /\ r.redb = redb /\ r.sqlite = sqlite
            ELSE r.res = "Ok"

\* A delete_rows was refused for a row id that is no uuid while the content
\* tables hold the rows of a published post.
C40_Witness ==
    /\ last.op = "delete_rows" /\ last.res = "UuidError"
    /\ redb.posts # EmptyTable /\ redb.metadata # EmptyTable
====
